---- MODULE Spec2Model ----
(***************************************************************************)
(* A state-machine model of wabt's SharedValidator                         *)
(* (src/src/shared-validator.cc).  The validator is a sink of events: the  *)
(* parser calls one entry point per declaration or instruction, each call  *)
(* returns Result::Ok or Result::Error and may append diagnostics to the   *)
(* borrowed error list.  One action models one entry point, as a whole.    *)
(*                                                                         *)
(* Indices are 0-based as in the source; a TLA+ sequence is 1-based, so    *)
(* the entry at index i of a vector v is v[i + 1].                          *)
(***************************************************************************)
EXTENDS Integers, Sequences, FiniteSets, TLC

VARIABLES
  options_,               \* options_.features: the feature flags, fixed per run
  types_,                 \* std::vector<FuncType>
  funcs_,                 \* std::vector<FuncType>
  tables_,                \* std::vector<TableType>
  memories_,              \* std::vector<MemoryType>
  globals_,               \* std::vector<GlobalType>
  num_imported_globals_,  \* Index
  events_,                \* std::vector<EventType>
  starts_,                \* number of start declarations seen
  elem_segments_,         \* Index
  data_segments_,         \* Index
  export_names_,          \* std::set<std::string>
  declared_funcs_,        \* std::set<Index>
  init_expr_funcs_,       \* std::vector<Var>
  locals_,                \* std::vector<LocalDecl>
  expr_loc_,              \* const Location*: where a TypeChecker diagnostic goes
  errors_,                \* Errors*: the append-only diagnostic list
  \* ---- observation of the run (not read by any handler) ----
  budget,                 \* events the parser will still issue
  last,                   \* the last event: op, result, its diagnostics, its inputs
  issued,                 \* per entry point, how many events were issued
  imported,               \* per entry of globals_: appended by OnGlobalImport?
  export_log,             \* the OnExport events, in order: name, item in range?
  ref_func_log,           \* the OnGlobalInitExpr_RefFunc events: index, in range?
  late_declared,          \* functions an elem entry declared after a global
                          \* initializer had named them
  elem_func_log,          \* the OnElemSegmentElemExpr_RefFunc events: index,
                          \* in range?
  returned,               \* the Result of every event so far, in order
  local_log,              \* the body being read: the parameters it began
                          \* with and the accepted local declarations
  twin                    \* a second run of the validator on the same flags and
                          \* the same events: its error list and its results

sigVars    == <<types_, funcs_, events_>>
storeVars  == <<tables_, memories_>>
globalVars == <<globals_, num_imported_globals_, imported>>
segVars    == <<elem_segments_, data_segments_>>
refVars    == <<declared_funcs_, init_expr_funcs_, ref_func_log, late_declared,
               elem_func_log>>
exportVars == <<export_names_, export_log>>
localVars  == <<locals_, local_log>>
bodyVars   == <<locals_, expr_loc_, local_log>>

vars == <<options_, sigVars, storeVars, globalVars, segVars, refVars,
          exportVars, bodyVars, starts_, errors_, budget, last, issued,
          returned, local_log, twin>>

----------------------------------------------------------------------------
(* Result and diagnostics *)

Ok == "Ok"
Error == "Error"

\* A check's outcome: its Result and the diagnostics it appended, in order.
NoError == [result |-> Ok, diags |-> <<>>]

\* PrintError appends one diagnostic and returns Result::Error.
PrintError(loc, msg) ==
  [result |-> Error, diags |-> <<[loc |-> loc, msg |-> msg]>>]

\* result |= check: both checks run, the diagnostics of both are kept.
Or(a, b) ==
  [result |-> IF a.result = Error \/ b.result = Error THEN Error ELSE Ok,
   diags  |-> a.diags \o b.diags]

Failed(r) == r.result = Error
Succeeded(r) == r.result = Ok

Msgs(diags) == {diags[i].msg : i \in 1..Len(diags)}

\* The number of diagnostics of `diags` whose message is in `S`.
RECURSIVE CountMsgs(_, _)
CountMsgs(diags, S) ==
  IF diags = <<>> THEN 0
  ELSE (IF Head(diags).msg \in S THEN 1 ELSE 0) + CountMsgs(Tail(diags), S)

Var(index, loc) == [index |-> index, loc |-> loc]

\* v[i] of a std::vector: the entry when i is in range; past the end the read
\* is undefined behaviour, and any value of `garbage` may come back.
VectorAt(v, i, garbage) == IF i < Len(v) THEN {v[i + 1]} ELSE garbage

\* v.back() of a std::vector: undefined behaviour when v is empty.
VectorBack(v, garbage) == IF Len(v) > 0 THEN {v[Len(v)]} ELSE garbage

----------------------------------------------------------------------------
(* Types *)

FuncType(params, results) == [params |-> params, results |-> results]

RefTypes == {"Funcref", "Externref", "Nullref", "Anyref", "Exnref"}

IsRefType(type) == type \in RefTypes

\* TypeChecker::CheckType(actual, expected), as spec.md 4.1 states it.
TypeCheckerCheckType(actual, expected) ==
  \/ expected = "Any"
  \/ actual = expected
  \/ /\ IsRefType(actual) /\ IsRefType(expected)
     /\ \/ actual = "Nullref"
        \/ actual \in {"Funcref", "Externref", "Exnref"} /\ expected = "Anyref"

\* What a read past the end of funcs_ or types_ may yield.
GarbageFuncTypes ==
  {FuncType(<<>>, <<>>), FuncType(<<"I32">>, <<>>), FuncType(<<>>, <<"I32">>)}

----------------------------------------------------------------------------
(* The index checks *)

CheckIndex(var, max_index, desc) ==
  IF var.index >= max_index
    THEN PrintError(var.loc, desc \o " variable out of range")
    ELSE NoError

CheckTypeIndex(sig_var) == CheckIndex(sig_var, Len(types_), "function type")

\* CheckFuncIndex accepting every index.
CheckFuncIndex_NoCheck(func_var) == NoError

CheckFuncIndex(func_var) == CheckIndex(func_var, Len(funcs_), "function")

CheckMemoryIndex(memory_var) == CheckIndex(memory_var, Len(memories_), "memory")

CheckTableIndex(table_var) == CheckIndex(table_var, Len(tables_), "table")

CheckEventIndex(event_var) == CheckIndex(event_var, Len(events_), "event")

OutOfRangeMsgs ==
  {d \o " variable out of range" :
     d \in {"function type", "function", "memory", "table", "global", "event"}}

----------------------------------------------------------------------------
(* The end of every handler: the diagnostics go to the error list, the     *)
(* result goes back to the parser.                                         *)

Ops ==
  {"OnType", "OnFunction", "OnTable", "OnMemory", "OnGlobalImport", "OnGlobal",
   "OnGlobalInitExpr_Const", "OnGlobalInitExpr_GlobalGet",
   "OnGlobalInitExpr_RefNull", "OnGlobalInitExpr_RefFunc",
   "OnGlobalInitExpr_Other", "OnGlobalInitExpr_None", "OnEvent", "OnExport",
   "OnStart", "OnElemSegment", "OnElemSegmentInitExpr_Const",
   "OnElemSegmentInitExpr_GlobalGet", "OnElemSegmentInitExpr_Other",
   "OnElemSegmentElemExpr_RefNull", "OnElemSegmentElemExpr_RefFunc",
   "OnElemSegmentElemExpr_Other", "OnDataCount", "OnDataSegment",
   "OnDataSegmentInitExpr_Const", "OnDataSegmentInitExpr_GlobalGet",
   "OnDataSegmentInitExpr_Other", "EndModule",
   "OnLoad", "OnLoadSplat", "OnStore", "OnAtomicLoad", "OnAtomicNotify",
   "OnAtomicRmwCmpxchg", "OnAtomicRmw", "OnAtomicStore", "OnAtomicWait",
   "BeginFunctionBody", "EndFunctionBody", "OnLocalDecl", "OnBrOnExn",
   "OnCall", "OnCallIndirect", "OnReturnCall", "OnReturnCallIndirect",
   "OnTableFill", "OnTableGet", "OnTableGrow", "OnTableInit", "OnTableSet",
   "OnThrow", "OnLocalGet", "OnLocalSet", "OnLocalTee", "OnRefFunc",
   "OnGlobalGet", "OnGlobalSet", "OnBlock", "OnLoop", "OnIf", "OnTry",
   "OnElse", "OnEnd", "OnNop", "OnMemoryInit", "OnDataDrop", "OnElemDrop"}

\* The end of an event in both runs: `r` is the event's outcome in this run,
\* `twin_r` its outcome in the second run, `mod` the outcome of its
\* module-level checks alone (the TypeChecker transition left out).  The two
\* outcomes can differ only where the handler reads outside a vector.
ReturnBoth(op, r, twin_r, mod, oob, args) ==
  /\ errors_' = errors_ \o r.diags
  /\ last' = [op |-> op, result |-> r.result, diags |-> r.diags,
              module |-> mod.result, oob |-> oob, args |-> args]
  /\ issued' = [issued EXCEPT ![op] = @ + 1]
  /\ budget' = budget - 1
  /\ returned' = Append(returned, r.result)
  /\ twin' = [errors   |-> twin.errors \o twin_r.diags,
              returned |-> Append(twin.returned, twin_r.result)]

\* An instruction event whose outcome is a function of the state.
ReturnInstr(op, r, mod, oob, args) == ReturnBoth(op, r, r, mod, oob, args)

\* A declaration event: all of its checks are module-level.
Return(op, r, oob, args) == ReturnInstr(op, r, r, oob, args)

----------------------------------------------------------------------------
(* Module-level declarations *)

OnType(loc, params, results) ==
  /\ budget > 0
  /\ types_' = Append(types_, FuncType(params, results))
  /\ Return("OnType", NoError, FALSE, [loc |-> loc])
  /\ UNCHANGED <<options_, funcs_, events_, storeVars, globalVars, segVars,
                 refVars, exportVars, bodyVars, starts_>>

OnFunction(loc, sig_var) ==
  /\ budget > 0
  /\ LET chk  == CheckTypeIndex(sig_var)
         args == [loc |-> loc, index |-> sig_var.index,
                  in_range |-> sig_var.index < Len(types_)]
     IN IF Failed(chk)
          THEN /\ Return("OnFunction", chk, FALSE, args)
               /\ UNCHANGED funcs_
          ELSE LET type == types_[sig_var.index + 1]
                   r == IF ~options_.multi_value_enabled /\ Len(type.results) > 1
                          THEN PrintError(loc,
                                 "multiple result values not currently supported.")
                          ELSE NoError
               IN /\ funcs_' = Append(funcs_, type)
                  /\ Return("OnFunction", r, FALSE, args)
  /\ UNCHANGED <<options_, types_, events_, storeVars, globalVars, segVars,
                 refVars, exportVars, bodyVars, starts_>>

\* A uint64_t as <<high, low>>, value = high * 2^16 + low with low < 2^16
\* (the values of interest exceed the integers the checker computes with).
U64(high, low) == <<high, low>>

\* a > b on uint64_t
U64Gt(a, b) == a[1] > b[1] \/ (a[1] = b[1] /\ a[2] > b[2])

\* a < b on uint64_t
U64Lt(a, b) == U64Gt(b, a)

U64Le(a, b) == a[1] < b[1] \/ (a[1] = b[1] /\ a[2] <= b[2])

\* UINT32_MAX = 2^32 - 1 = 65535 * 2^16 + 65535
UINT32_MAX == U64(65535, 65535)

\* WABT_MAX_PAGES = 0x10000 = 1 * 2^16 + 0
WABT_MAX_PAGES == U64(1, 0)

Limits(initial, has_max, max, is_shared) ==
  [initial |-> initial, has_max |-> has_max, max |-> max,
   is_shared |-> is_shared]

\* CheckLimits without the comparison of max against initial.
CheckLimits_NoOrderCheck(loc, limits, absolute_max, desc) ==
  LET r1 == IF U64Gt(limits.initial, absolute_max)
              THEN PrintError(loc, "initial " \o desc \o " must be <= absolute max")
              ELSE NoError
      r2 == IF limits.has_max /\ U64Gt(limits.max, absolute_max)
              THEN PrintError(loc, "max " \o desc \o " must be <= absolute max")
              ELSE NoError
  IN Or(r1, r2)

CheckLimits(loc, limits, absolute_max, desc) ==
  LET r1 == IF U64Gt(limits.initial, absolute_max)
              THEN PrintError(loc, "initial " \o desc \o " must be <= absolute max")
              ELSE NoError
      r2 == IF limits.has_max /\ U64Gt(limits.max, absolute_max)
              THEN PrintError(loc, "max " \o desc \o " must be <= absolute max")
              ELSE NoError
      r3 == IF limits.has_max /\ U64Lt(limits.max, limits.initial)
              THEN PrintError(loc, "max " \o desc \o " must be >= initial " \o desc)
              ELSE NoError
  IN Or(Or(r1, r2), r3)

TableType(element, limits) == [element |-> element, limits |-> limits]

MemoryType(limits) == [limits |-> limits]

\* The checks of OnTable without the funcref rule.
OnTableChecks_NoFuncrefCheck(loc, elem_type, limits) ==
  LET r1 == IF Len(tables_) > 0 /\ ~options_.reference_types_enabled
              THEN PrintError(loc, "only one table allowed")
              ELSE NoError
      r2 == CheckLimits(loc, limits, UINT32_MAX, "elems")
      r3 == IF limits.is_shared
              THEN PrintError(loc, "tables may not be shared")
              ELSE NoError
      r5 == IF ~IsRefType(elem_type)
              THEN PrintError(loc, "tables must have reference types")
              ELSE NoError
  IN Or(Or(Or(r1, r2), r3), r5)

\* The checks of OnTable, in the order the code makes them.
OnTableChecks(loc, elem_type, limits) ==
  LET r1 == IF Len(tables_) > 0 /\ ~options_.reference_types_enabled
              THEN PrintError(loc, "only one table allowed")
              ELSE NoError
      r2 == CheckLimits(loc, limits, UINT32_MAX, "elems")
      r3 == IF limits.is_shared
              THEN PrintError(loc, "tables may not be shared")
              ELSE NoError
      r4 == IF elem_type # "Funcref" /\ ~options_.reference_types_enabled
              THEN PrintError(loc, "tables must have funcref type")
              ELSE NoError
      r5 == IF ~IsRefType(elem_type)
              THEN PrintError(loc, "tables must have reference types")
              ELSE NoError
  IN Or(Or(Or(Or(r1, r2), r3), r4), r5)

\* OnTable keeping only the tables it accepts.
OnTable_RejectedNotAppended(loc, elem_type, limits) ==
  /\ budget > 0
  /\ tables_' = IF Failed(OnTableChecks(loc, elem_type, limits))
                  THEN tables_
                  ELSE Append(tables_, TableType(elem_type, limits))
  /\ Return("OnTable", OnTableChecks(loc, elem_type, limits), FALSE,
            [loc |-> loc, elem_type |-> elem_type, limits |-> limits])
  /\ UNCHANGED <<options_, sigVars, memories_, globalVars, segVars, refVars,
                 exportVars, bodyVars, starts_>>

OnTable(loc, elem_type, limits) ==
  /\ budget > 0
  /\ tables_' = Append(tables_, TableType(elem_type, limits))
  /\ Return("OnTable", OnTableChecks(loc, elem_type, limits), FALSE,
            [loc |-> loc, elem_type |-> elem_type, limits |-> limits])
  /\ UNCHANGED <<options_, sigVars, memories_, globalVars, segVars, refVars,
                 exportVars, bodyVars, starts_>>

\* The shared-memory rule without the demand for a max.
CheckSharedLimits_NoMaxRule(loc, limits) ==
  IF limits.is_shared /\ ~options_.threads_enabled
    THEN PrintError(loc, "memories may not be shared")
    ELSE NoError

\* The shared-memory rule of OnMemory.
CheckSharedLimits(loc, limits) ==
  IF limits.is_shared
    THEN IF ~options_.threads_enabled
           THEN PrintError(loc, "memories may not be shared")
           ELSE IF ~limits.has_max
                  THEN PrintError(loc, "shared memories must have max sizes")
                  ELSE NoError
    ELSE NoError

\* The checks of OnMemory without the count of the memories.
OnMemoryChecks_NoCountCheck(loc, limits) ==
  Or(CheckLimits(loc, limits, WABT_MAX_PAGES, "pages"),
     CheckSharedLimits(loc, limits))

\* The checks of OnMemory, in the order the code makes them.
OnMemoryChecks(loc, limits) ==
  LET r1 == IF Len(memories_) > 0
              THEN PrintError(loc, "only one memory block allowed")
              ELSE NoError
      r2 == CheckLimits(loc, limits, WABT_MAX_PAGES, "pages")
  IN Or(Or(r1, r2), CheckSharedLimits(loc, limits))

OnMemory(loc, limits) ==
  /\ budget > 0
  /\ memories_' = Append(memories_, MemoryType(limits))
  /\ Return("OnMemory", OnMemoryChecks(loc, limits), FALSE,
            [loc |-> loc, limits |-> limits])
  /\ UNCHANGED <<options_, sigVars, tables_, globalVars, segVars, refVars,
                 exportVars, bodyVars, starts_>>

GlobalType(type, mutable_) == [type |-> type, mutable_ |-> mutable_]

\* What globals_.back() may yield when globals_ is empty.
GarbageGlobalTypes ==
  {GlobalType(t, m) : t \in {"I32", "Funcref"}, m \in BOOLEAN}

\* OnGlobalImport leaving out a global it rejects: nothing appended, nothing
\* counted.
OnGlobalImport_RejectedNotCounted(loc, type, mutable_) ==
  /\ budget > 0
  /\ LET r == IF mutable_ /\ ~options_.mutable_globals_enabled
                THEN PrintError(loc, "mutable globals cannot be imported")
                ELSE NoError
     IN /\ IF Failed(r)
             THEN UNCHANGED globalVars
             ELSE /\ globals_' = Append(globals_, GlobalType(type, mutable_))
                  /\ num_imported_globals_' = num_imported_globals_ + 1
                  /\ imported' = Append(imported, TRUE)
        /\ Return("OnGlobalImport", r, FALSE,
                  [loc |-> loc, type |-> type, mutable_ |-> mutable_])
  /\ UNCHANGED <<options_, sigVars, storeVars, segVars, refVars, exportVars,
                 bodyVars, starts_>>

OnGlobalImport(loc, type, mutable_) ==
  /\ budget > 0
  /\ globals_' = Append(globals_, GlobalType(type, mutable_))
  /\ num_imported_globals_' = num_imported_globals_ + 1
  /\ imported' = Append(imported, TRUE)
  /\ Return("OnGlobalImport",
            IF mutable_ /\ ~options_.mutable_globals_enabled
              THEN PrintError(loc, "mutable globals cannot be imported")
              ELSE NoError,
            FALSE, [loc |-> loc, type |-> type, mutable_ |-> mutable_])
  /\ UNCHANGED <<options_, sigVars, storeVars, segVars, refVars, exportVars,
                 bodyVars, starts_>>

OnGlobal(loc, type, mutable_) ==
  /\ budget > 0
  /\ globals_' = Append(globals_, GlobalType(type, mutable_))
  /\ imported' = Append(imported, FALSE)
  /\ Return("OnGlobal", NoError, FALSE,
            [loc |-> loc, type |-> type, mutable_ |-> mutable_])
  /\ UNCHANGED <<options_, sigVars, storeVars, num_imported_globals_, segVars,
                 refVars, exportVars, bodyVars, starts_>>

\* CheckType returning Result::Error without a call of PrintError.
CheckType_NoDiagnostic(loc, actual, expected, desc) ==
  IF ~TypeCheckerCheckType(actual, expected)
    THEN [result |-> Error, diags |-> <<>>]
    ELSE NoError

CheckType(loc, actual, expected, desc) ==
  IF ~TypeCheckerCheckType(actual, expected)
    THEN PrintError(loc, "type mismatch at " \o desc \o ". got " \o actual
                           \o ", expected " \o expected)
    ELSE NoError

CheckGlobalIndex(global_var) ==
  CheckIndex(global_var, Len(globals_), "global")

\* CheckGlobalIndex with an immutable placeholder, GlobalType{Any, false}.
OutGlobalType_ImmutablePlaceholder(global_var) ==
  IF Succeeded(CheckGlobalIndex(global_var))
    THEN globals_[global_var.index + 1]
    ELSE GlobalType("Any", FALSE)

\* The GlobalType CheckGlobalIndex hands back through out_global_type.
OutGlobalType(global_var) ==
  IF Succeeded(CheckGlobalIndex(global_var))
    THEN globals_[global_var.index + 1]
    ELSE GlobalType("Any", TRUE)

\* The initializer events read globals_.back(), the global being initialized.
GlobalInitExpr(op, loc, actual, args) ==
  /\ budget > 0
  /\ \E back \in VectorBack(globals_, GarbageGlobalTypes),
        twin_back \in VectorBack(globals_, GarbageGlobalTypes) :
       LET r == CheckType(loc, actual, back.type,
                          "global initializer expression")
       IN ReturnBoth(op, r,
                     CheckType(loc, actual, twin_back.type,
                               "global initializer expression"),
                     r, globals_ = <<>>, args)
  /\ UNCHANGED <<options_, sigVars, storeVars, globalVars, segVars, refVars,
                 exportVars, bodyVars, starts_>>

OnGlobalInitExpr_Const(loc, actual) ==
  GlobalInitExpr("OnGlobalInitExpr_Const", loc, actual,
                 [loc |-> loc, actual |-> actual])

\* GlobalGetChecks with the import test off by one (> for >=).
GlobalGetChecks_OffByOne(loc, ref_global_var, ref_global, expected) ==
  LET r1 == IF ref_global_var.index > num_imported_globals_
              THEN PrintError(ref_global_var.loc,
                     "initializer expression can only reference an imported global")
              ELSE NoError
      r2 == IF ref_global.mutable_
              THEN PrintError(loc,
                     "initializer expression cannot reference a mutable global")
              ELSE NoError
      r3 == CheckType(loc, ref_global.type, expected,
                      "global initializer expression")
  IN Or(Or(r1, r2), r3)

\* The three checks OnGlobalInitExpr_GlobalGet makes once the index is in range.
GlobalGetChecks(loc, ref_global_var, ref_global, expected) ==
  LET r1 == IF ref_global_var.index >= num_imported_globals_
              THEN PrintError(ref_global_var.loc,
                     "initializer expression can only reference an imported global")
              ELSE NoError
      r2 == IF ref_global.mutable_
              THEN PrintError(loc,
                     "initializer expression cannot reference a mutable global")
              ELSE NoError
      r3 == CheckType(loc, ref_global.type, expected,
                      "global initializer expression")
  IN Or(Or(r1, r2), r3)

OnGlobalInitExpr_GlobalGet(loc, ref_global_var) ==
  /\ budget > 0
  /\ LET chk  == CheckGlobalIndex(ref_global_var)
         args == [loc |-> loc, index |-> ref_global_var.index,
                  in_range |-> ref_global_var.index < Len(globals_)]
     IN IF Failed(chk)
          THEN Return("OnGlobalInitExpr_GlobalGet", chk, FALSE, args)
          ELSE Return("OnGlobalInitExpr_GlobalGet",
                      GlobalGetChecks(loc, ref_global_var,
                                      OutGlobalType(ref_global_var),
                                      globals_[Len(globals_)].type),
                      FALSE, args)
  /\ UNCHANGED <<options_, sigVars, storeVars, globalVars, segVars, refVars,
                 exportVars, bodyVars, starts_>>

OnGlobalInitExpr_RefNull(loc) ==
  GlobalInitExpr("OnGlobalInitExpr_RefNull", loc, "Nullref", [loc |-> loc])

OnGlobalInitExpr_RefFunc(loc, func_var) ==
  /\ budget > 0
  /\ ref_func_log' = ref_func_log \cup
                       {[index |-> func_var.index,
                         in_range |-> func_var.index < Len(funcs_)]}
  /\ LET chk  == CheckFuncIndex(func_var)
         args == [loc |-> loc, index |-> func_var.index,
                  in_range |-> func_var.index < Len(funcs_)]
     IN IF Failed(chk)
          THEN /\ Return("OnGlobalInitExpr_RefFunc", chk, FALSE, args)
               /\ UNCHANGED init_expr_funcs_
          ELSE /\ init_expr_funcs_' = Append(init_expr_funcs_, func_var)
               /\ \E back \in VectorBack(globals_, GarbageGlobalTypes),
                     twin_back \in VectorBack(globals_, GarbageGlobalTypes) :
                    LET r == CheckType(loc, "Funcref", back.type,
                                       "global initializer expression")
                    IN ReturnBoth("OnGlobalInitExpr_RefFunc", r,
                                  CheckType(loc, "Funcref", twin_back.type,
                                            "global initializer expression"),
                                  r, globals_ = <<>>, args)
  /\ UNCHANGED <<options_, sigVars, storeVars, globalVars, segVars,
                 declared_funcs_, late_declared, elem_func_log, exportVars,
                 bodyVars, starts_>>

OnGlobalInitExpr_Other(loc) ==
  /\ budget > 0
  /\ Return("OnGlobalInitExpr_Other",
            PrintError(loc, "invalid global initializer expression, must be a constant expression; either *.const or global.get."),
            FALSE, [loc |-> loc])
  /\ UNCHANGED <<options_, sigVars, storeVars, globalVars, segVars, refVars,
                 exportVars, bodyVars, starts_>>

OnGlobalInitExpr_None(loc) ==
  GlobalInitExpr("OnGlobalInitExpr_None", loc, "Void", [loc |-> loc])

EventType(params) == [params |-> params]

OnEvent(loc, sig_var) ==
  /\ budget > 0
  /\ LET chk  == CheckTypeIndex(sig_var)
         args == [loc |-> loc, index |-> sig_var.index,
                  in_range |-> sig_var.index < Len(types_)]
     IN IF Failed(chk)
          THEN /\ Return("OnEvent", chk, FALSE, args)
               /\ UNCHANGED events_
          ELSE LET type == types_[sig_var.index + 1]
               IN /\ events_' = Append(events_, EventType(type.params))
                  /\ Return("OnEvent",
                            IF type.results # <<>>
                              THEN PrintError(loc,
                                     "Event signature must have 0 results.")
                              ELSE NoError,
                            FALSE, args)
  /\ UNCHANGED <<options_, types_, funcs_, storeVars, globalVars, segVars,
                 refVars, exportVars, bodyVars, starts_>>

\* export_names_.find(name) != end(): the duplicate check of OnExport.
CheckDuplicateExport(loc, name) ==
  IF name \in export_names_
    THEN PrintError(loc, "duplicate export \"" \o name \o "\"")
    ELSE NoError

\* export_names_.insert(name)
InsertExportName(name) == export_names_ \cup {name}

\* The switch of OnExport over the kind of the exported item.
CheckExportItem(kind, item_var) ==
  CASE kind = "Func"   -> CheckFuncIndex(item_var)
    [] kind = "Table"  -> CheckTableIndex(item_var)
    [] kind = "Memory" -> CheckMemoryIndex(item_var)
    [] kind = "Global" -> CheckGlobalIndex(item_var)
    [] kind = "Event"  -> CheckEventIndex(item_var)

\* The length of the vector an export of `kind` refers to.
ExportTableSize(kind) ==
  CASE kind = "Func"   -> Len(funcs_)
    [] kind = "Table"  -> Len(tables_)
    [] kind = "Memory" -> Len(memories_)
    [] kind = "Global" -> Len(globals_)
    [] kind = "Event"  -> Len(events_)

\* OnExport with the name recorded only once the item index has passed its
\* check.
OnExport_InsertAfterCheck(loc, kind, item_var, name) ==
  /\ budget > 0
  /\ export_names_' = IF Failed(CheckExportItem(kind, item_var))
                        THEN export_names_
                        ELSE InsertExportName(name)
  /\ export_log' = Append(export_log,
                          [name |-> name,
                           in_range |-> item_var.index < ExportTableSize(kind)])
  /\ Return("OnExport",
            Or(CheckDuplicateExport(loc, name), CheckExportItem(kind, item_var)),
            FALSE,
            [loc |-> loc, kind |-> kind, index |-> item_var.index, name |-> name,
             in_range |-> item_var.index < ExportTableSize(kind)])
  /\ UNCHANGED <<options_, sigVars, storeVars, globalVars, segVars, refVars,
                 bodyVars, starts_>>

OnExport(loc, kind, item_var, name) ==
  /\ budget > 0
  /\ export_names_' = InsertExportName(name)
  /\ export_log' = Append(export_log,
                          [name |-> name,
                           in_range |-> item_var.index < ExportTableSize(kind)])
  /\ Return("OnExport",
            Or(CheckDuplicateExport(loc, name), CheckExportItem(kind, item_var)),
            FALSE,
            [loc |-> loc, kind |-> kind, index |-> item_var.index, name |-> name,
             in_range |-> item_var.index < ExportTableSize(kind)])
  /\ UNCHANGED <<options_, sigVars, storeVars, globalVars, segVars, refVars,
                 bodyVars, starts_>>

\* The three checks of OnStart on the entry it read from funcs_.
OnStartChecks(loc, func_type) ==
  LET r1 == IF starts_ > 0
              THEN PrintError(loc, "only one start function allowed")
              ELSE NoError
      r2 == IF Len(func_type.params) # 0
              THEN PrintError(loc, "start function must be nullary")
              ELSE NoError
      r3 == IF Len(func_type.results) # 0
              THEN PrintError(loc, "start function must not return anything")
              ELSE NoError
  IN Or(Or(r1, r2), r3)

\* OnStart reads funcs_[func_var.index()] without an index check.
OnStart(loc, func_var) ==
  /\ budget > 0
  /\ \E func_type \in VectorAt(funcs_, func_var.index, GarbageFuncTypes),
        twin_type \in VectorAt(funcs_, func_var.index, GarbageFuncTypes) :
       /\ starts_' = starts_ + 1
       /\ ReturnBoth("OnStart", OnStartChecks(loc, func_type),
                     OnStartChecks(loc, twin_type),
                     OnStartChecks(loc, func_type),
                     ~(func_var.index < Len(funcs_)),
                     [loc |-> loc, index |-> func_var.index,
                      in_range |-> func_var.index < Len(funcs_),
                      first |-> issued["OnStart"] = 0])
  /\ UNCHANGED <<options_, sigVars, storeVars, globalVars, segVars, refVars,
                 exportVars, bodyVars>>

OnElemSegment(loc, table_var, kind, elem_type) ==
  /\ budget > 0
  /\ elem_segments_' = elem_segments_ + 1
  /\ Return("OnElemSegment",
            IF kind = "Active" THEN CheckTableIndex(table_var) ELSE NoError,
            FALSE,
            [loc |-> loc, kind |-> kind, index |-> table_var.index,
             in_range |-> table_var.index < Len(tables_)])
  /\ UNCHANGED <<options_, sigVars, storeVars, globalVars, data_segments_,
                 refVars, exportVars, bodyVars, starts_>>

\* An event that reads the state and changes none of the module's tables.
ReadOnly(op, r, args) ==
  /\ budget > 0
  /\ Return(op, r, FALSE, args)
  /\ UNCHANGED <<options_, sigVars, storeVars, globalVars, segVars, refVars,
                 exportVars, bodyVars, starts_>>

\* SegmentGlobalGetChecks without the test of the global's mutability.
SegmentGlobalGetChecks_MutableAccepted(loc, global_var, desc) ==
  LET chk == CheckGlobalIndex(global_var)
      ref_global == OutGlobalType(global_var)
  IN IF Failed(chk) THEN chk
     ELSE CheckType(loc, ref_global.type, "I32", desc)

\* global.get as a segment offset: the global must be immutable and i32.
SegmentGlobalGetChecks(loc, global_var, desc) ==
  LET chk == CheckGlobalIndex(global_var)
      ref_global == OutGlobalType(global_var)
      r1 == IF ref_global.mutable_
              THEN PrintError(loc,
                     "initializer expression cannot reference a mutable global")
              ELSE NoError
  IN IF Failed(chk) THEN chk
     ELSE Or(r1, CheckType(loc, ref_global.type, "I32", desc))

OnElemSegmentInitExpr_Const(loc, type) ==
  ReadOnly("OnElemSegmentInitExpr_Const",
           CheckType(loc, type, "I32", "elem segment offset"),
           [loc |-> loc, type |-> type])

OnElemSegmentInitExpr_GlobalGet(loc, global_var) ==
  ReadOnly("OnElemSegmentInitExpr_GlobalGet",
           SegmentGlobalGetChecks(loc, global_var, "elem segment offset"),
           [loc |-> loc, index |-> global_var.index,
            in_range |-> global_var.index < Len(globals_)])

OnElemSegmentInitExpr_Other(loc) ==
  ReadOnly("OnElemSegmentInitExpr_Other",
           PrintError(loc, "invalid elem segment offset, must be a constant expression; either i32.const or global.get."),
           [loc |-> loc])

OnElemSegmentElemExpr_RefNull(loc) ==
  ReadOnly("OnElemSegmentElemExpr_RefNull", NoError, [loc |-> loc])

OnElemSegmentElemExpr_RefFunc(loc, func_var) ==
  /\ budget > 0
  /\ LET chk == CheckFuncIndex(func_var)
     IN /\ declared_funcs_' = IF Failed(chk) THEN declared_funcs_
                              ELSE declared_funcs_ \cup {func_var.index}
        /\ late_declared' =
             IF /\ Succeeded(chk)
                /\ func_var.index \notin declared_funcs_
                /\ \E e \in ref_func_log : e.index = func_var.index /\ e.in_range
               THEN late_declared \cup {func_var.index}
               ELSE late_declared
        /\ elem_func_log' = elem_func_log \cup
                               {[index |-> func_var.index,
                                 in_range |-> func_var.index < Len(funcs_)]}
        /\ Return("OnElemSegmentElemExpr_RefFunc", chk, FALSE,
                  [loc |-> loc, index |-> func_var.index,
                   in_range |-> func_var.index < Len(funcs_)])
  /\ UNCHANGED <<options_, sigVars, storeVars, globalVars, segVars,
                 init_expr_funcs_, ref_func_log, exportVars, bodyVars, starts_>>

OnElemSegmentElemExpr_Other(loc) ==
  ReadOnly("OnElemSegmentElemExpr_Other",
           PrintError(loc, "invalid elem expression expression; must be either ref.null or ref.func."),
           [loc |-> loc])

\* OnDataCount returns void: there is no Result, and no diagnostic.
OnDataCount(count) ==
  /\ budget > 0
  /\ data_segments_' = count
  /\ Return("OnDataCount", [result |-> "void", diags |-> <<>>], FALSE,
            [count |-> count])
  /\ UNCHANGED <<options_, sigVars, storeVars, globalVars, elem_segments_,
                 refVars, exportVars, bodyVars, starts_>>

OnDataSegment(loc, memory_var, kind) ==
  ReadOnly("OnDataSegment",
           IF kind = "Active" THEN CheckMemoryIndex(memory_var) ELSE NoError,
           [loc |-> loc, kind |-> kind, index |-> memory_var.index,
            in_range |-> memory_var.index < Len(memories_)])

OnDataSegmentInitExpr_Const(loc, type) ==
  ReadOnly("OnDataSegmentInitExpr_Const",
           CheckType(loc, type, "I32", "data segment offset"),
           [loc |-> loc, type |-> type])

OnDataSegmentInitExpr_GlobalGet(loc, global_var) ==
  ReadOnly("OnDataSegmentInitExpr_GlobalGet",
           SegmentGlobalGetChecks(loc, global_var, "data segment offset"),
           [loc |-> loc, index |-> global_var.index,
            in_range |-> global_var.index < Len(globals_)])

OnDataSegmentInitExpr_Other(loc) ==
  ReadOnly("OnDataSegmentInitExpr_Other",
           PrintError(loc, "invalid data segment offset, must be a constant expression; either i32.const or global.get."),
           [loc |-> loc])

\* CheckDeclaredFunc asking whether any function is declared, not this one.
CheckDeclaredFunc_AnyDeclared(func_var) ==
  IF declared_funcs_ = {}
    THEN PrintError(func_var.loc,
                    "function is not declared in any elem sections")
    ELSE NoError

CheckDeclaredFunc(func_var) ==
  IF func_var.index \notin declared_funcs_
    THEN PrintError(func_var.loc,
                    "function is not declared in any elem sections")
    ELSE NoError

\* The loop of EndModule over init_expr_funcs_: CHECK_RESULT returns at the
\* first function that is not declared.
RECURSIVE CheckInitExprFuncs(_)
CheckInitExprFuncs(func_vars) ==
  IF func_vars = <<>> THEN NoError
  ELSE IF Failed(CheckDeclaredFunc(Head(func_vars)))
         THEN CheckDeclaredFunc(Head(func_vars))
         ELSE CheckInitExprFuncs(Tail(func_vars))

EndModule ==
  ReadOnly("EndModule", CheckInitExprFuncs(init_expr_funcs_), <<>>)

----------------------------------------------------------------------------
(* Instruction events *)

\* The error callback the constructor hands to the TypeChecker: the
\* diagnostic goes to the location expr_loc_ points at.
OnTypecheckerError(expr_loc, msg) == PrintError(expr_loc, msg)

\* A TypeChecker transition.  The operand and control stacks are the
\* TypeChecker's own; seen from the validator the transition either succeeds
\* or reports through the callback and fails.
TypeCheckerTransition(expr_loc) ==
  {NoError, OnTypecheckerError(expr_loc, "type mismatch")}

\* x & y on unsigned integers.
RECURSIVE BitAnd(_, _)
BitAnd(x, y) ==
  IF x = 0 \/ y = 0 THEN 0
  ELSE (x % 2) * (y % 2) + 2 * BitAnd(x \div 2, y \div 2)

\* (x & (x - 1)) == 0 alone: 0 - 1 wraps to 2^32 - 1, and 0 & that is 0.
is_power_of_two_ZeroAccepted(x) == IF x = 0 THEN TRUE ELSE BitAnd(x, x - 1) = 0

\* x && ((x & (x - 1)) == 0), on uint32_t: x - 1 is computed only when x is
\* not 0, so it does not wrap.
is_power_of_two(x) == x # 0 /\ BitAnd(x, x - 1) = 0

CheckAlign(loc, alignment, natural_alignment) ==
  IF ~is_power_of_two(alignment)
    THEN PrintError(loc, "alignment must be a power of 2")
    ELSE IF alignment > natural_alignment
           THEN PrintError(loc,
                  "alignment must not be larger than natural alignment")
           ELSE NoError

CheckAtomicAlign(loc, alignment, natural_alignment) ==
  IF ~is_power_of_two(alignment)
    THEN PrintError(loc, "alignment must be a power of 2")
    ELSE IF alignment # natural_alignment
           THEN PrintError(loc,
                  "alignment must be equal to natural alignment")
           ELSE NoError

\* CheckSharedMemoryIndex as CheckMemoryIndex: any memory 0 will do.
CheckSharedMemoryIndex_SharedNotRequired(memory_var, opcode) ==
  CheckIndex(memory_var, Len(memories_), "memory")

CheckSharedMemoryIndex(memory_var, opcode) ==
  LET chk == CheckIndex(memory_var, Len(memories_), "memory")
  IN IF Failed(chk) THEN chk
     ELSE IF ~memories_[memory_var.index + 1].limits.is_shared
            THEN PrintError(memory_var.loc,
                            opcode.name \o " requires memory to be shared.")
            ELSE NoError

\* An instruction event on memory 0: expr_loc_ is set, then the module-level
\* checks `mod` run, then the TypeChecker transition.
MemoryInstr(op, loc, opcode, alignment, mod) ==
  /\ budget > 0
  /\ expr_loc_' = loc
  /\ \E tc \in TypeCheckerTransition(loc) :
       ReturnInstr(op, Or(mod, tc), mod, FALSE,
                   [loc |-> loc, opcode |-> opcode, alignment |-> alignment])
  /\ UNCHANGED <<options_, sigVars, storeVars, globalVars, segVars, refVars,
                 exportVars, localVars, starts_>>

AtomicChecks(loc, opcode, alignment) ==
  Or(CheckSharedMemoryIndex(Var(0, loc), opcode),
     CheckAtomicAlign(loc, alignment, opcode.memory_size))

OnAtomicLoad(loc, opcode, alignment) ==
  MemoryInstr("OnAtomicLoad", loc, opcode, alignment,
              AtomicChecks(loc, opcode, alignment))

OnAtomicNotify(loc, opcode, alignment) ==
  MemoryInstr("OnAtomicNotify", loc, opcode, alignment,
              AtomicChecks(loc, opcode, alignment))

OnAtomicRmwCmpxchg(loc, opcode, alignment) ==
  MemoryInstr("OnAtomicRmwCmpxchg", loc, opcode, alignment,
              AtomicChecks(loc, opcode, alignment))

OnAtomicRmw(loc, opcode, alignment) ==
  MemoryInstr("OnAtomicRmw", loc, opcode, alignment,
              AtomicChecks(loc, opcode, alignment))

OnAtomicStore(loc, opcode, alignment) ==
  MemoryInstr("OnAtomicStore", loc, opcode, alignment,
              AtomicChecks(loc, opcode, alignment))

OnAtomicWait(loc, opcode, alignment) ==
  MemoryInstr("OnAtomicWait", loc, opcode, alignment,
              AtomicChecks(loc, opcode, alignment))

LoadStoreChecks(loc, opcode, alignment) ==
  Or(CheckMemoryIndex(Var(0, loc)),
     CheckAlign(loc, alignment, opcode.memory_size))

OnLoad(loc, opcode, alignment) ==
  MemoryInstr("OnLoad", loc, opcode, alignment,
              LoadStoreChecks(loc, opcode, alignment))

OnLoadSplat(loc, opcode, alignment) ==
  MemoryInstr("OnLoadSplat", loc, opcode, alignment,
              LoadStoreChecks(loc, opcode, alignment))

OnStore(loc, opcode, alignment) ==
  MemoryInstr("OnStore", loc, opcode, alignment,
              LoadStoreChecks(loc, opcode, alignment))

----------------------------------------------------------------------------
(* Function bodies: the locals *)

\* Index is uint32_t; a value is <<high, low>> as for U64, with high < 2^16.
\* a + b on uint32_t (wraps at 2^32).
U32Add(a, b) ==
  LET low  == a[2] + b[2]
      high == a[1] + b[1] + (low \div 65536)
  IN <<high % 65536, low % 65536>>

\* a - b on uint32_t (wraps at 2^32).
U32Sub(a, b) ==
  LET low  == a[2] - b[2]
      high == a[1] - b[1] - (IF low < 0 THEN 1 ELSE 0)
  IN <<(high + 65536) % 65536, (low + 65536) % 65536>>

\* std::numeric_limits<Index>::max()
max_locals == U64(65535, 65535)

LocalDecl(type, end) == [type |-> type, end |-> end]

\* locals.empty() ? 0 : locals.back().end, of a list of LocalDecl
LocalCount(locals) ==
  IF locals = <<>> THEN U64(0, 0) ELSE locals[Len(locals)].end

GetLocalCount == LocalCount(locals_)

\* The loop of BeginFunctionBody over the parameters: one LocalDecl each.
RECURSIVE PushParams(_, _)
PushParams(locals, params) ==
  IF params = <<>> THEN locals
  ELSE PushParams(Append(locals,
                         LocalDecl(Head(params),
                                   U32Add(LocalCount(locals), U64(0, 1)))),
                  Tail(params))

\* BeginFunctionBody without locals_.clear(): the parameters are pushed after
\* whatever the previous body left.
BeginFunctionLocals_NoClear(func_index) ==
  IF func_index < Len(funcs_)
    THEN PushParams(locals_, funcs_[func_index + 1].params)
    ELSE locals_

\* The locals BeginFunctionBody leaves: cleared, then the parameters.
BeginFunctionLocals(func_index) ==
  IF func_index < Len(funcs_)
    THEN PushParams(<<>>, funcs_[func_index + 1].params)
    ELSE <<>>

\* The result types BeginFunctionBody hands to TypeChecker::BeginFunction.
BeginFunctionResults(func_index) ==
  IF func_index < Len(funcs_) THEN funcs_[func_index + 1].results ELSE <<>>

BeginFunctionBody(loc, func_index) ==
  /\ budget > 0
  /\ expr_loc_' = loc
  /\ locals_' = BeginFunctionLocals(func_index)
  /\ local_log' = [params |-> IF func_index < Len(funcs_)
                                THEN funcs_[func_index + 1].params ELSE <<>>,
                    decls  |-> <<>>]
  /\ \E tc \in TypeCheckerTransition(loc) :
       ReturnInstr("BeginFunctionBody", tc, NoError, FALSE,
                   [loc |-> loc, index |-> func_index,
                    in_range |-> func_index < Len(funcs_),
                    cleared |-> locals_,
                    results |-> BeginFunctionResults(func_index)])
  /\ UNCHANGED <<options_, sigVars, storeVars, globalVars, segVars, refVars,
                 exportVars, starts_>>

\* EndFunctionBody leaves expr_loc_ alone: a TypeChecker diagnostic goes to
\* the location it points at.
EndFunctionBody(loc) ==
  /\ budget > 0
  /\ \E tc \in TypeCheckerTransition(expr_loc_) :
       ReturnInstr("EndFunctionBody", tc, NoError, FALSE, [loc |-> loc])
  /\ UNCHANGED <<options_, sigVars, storeVars, globalVars, segVars, refVars,
                 exportVars, bodyVars, starts_>>

\* OnLocalDecl without the guard against a total past the largest Index.
LocalCountOverflows_Never(count) == FALSE

\* count > max_locals - GetLocalCount()
LocalCountOverflows(count) ==
  U64Gt(count, U32Sub(max_locals, GetLocalCount))

OnLocalDecl(loc, count, type) ==
  /\ budget > 0
  /\ IF LocalCountOverflows(count)
       THEN /\ UNCHANGED localVars
            /\ Return("OnLocalDecl",
                      PrintError(loc, "local count must be < 0x10000000"),
                      FALSE, [loc |-> loc, count |-> count, type |-> type])
       ELSE /\ locals_' = Append(locals_,
                                 LocalDecl(type, U32Add(GetLocalCount, count)))
            /\ local_log' = [local_log EXCEPT
                               !.decls = Append(@, [count |-> count,
                                                    type  |-> type])]
            /\ Return("OnLocalDecl", NoError, FALSE,
                      [loc |-> loc, count |-> count, type |-> type])
  /\ UNCHANGED <<options_, sigVars, storeVars, globalVars, segVars, refVars,
                 exportVars, expr_loc_, starts_>>

\* The lookup with index <= decl.end as its predicate.
LocalUpperBound_AtOrBelowEnd(index) ==
  LET above == {i \in 1..Len(locals_) : U64Le(index, locals_[i].end)}
  IN IF above = {} THEN Len(locals_) + 1
     ELSE CHOOSE i \in above : \A j \in above : i <= j

\* std::upper_bound(locals_, index, index < decl.end): the position of the
\* first LocalDecl whose end is above the index, Len(locals_) + 1 if none.
LocalUpperBound(index) ==
  LET above == {i \in 1..Len(locals_) : U64Lt(index, locals_[i].end)}
  IN IF above = {} THEN Len(locals_) + 1
     ELSE CHOOSE i \in above : \A j \in above : i <= j

\* CheckLocalIndex: the outcome, and the type written to *out_type (Any, the
\* caller's initial value, when the check fails).
CheckLocalIndex(local_var) ==
  LET iter == LocalUpperBound(local_var.index)
  IN IF iter = Len(locals_) + 1
       THEN [result |-> Error,
             diags  |-> PrintError(local_var.loc,
                                   "local variable out of range").diags,
             type   |-> "Any"]
       ELSE [result |-> Ok, diags |-> <<>>, type |-> locals_[iter].type]

----------------------------------------------------------------------------
(* Instructions that carry an index into a table of the module *)

\* What a read past the end of events_ or tables_ may yield.
GarbageEventTypes == {EventType(<<>>), EventType(<<"I32">>)}

GarbageTableTypes ==
  {TableType("Funcref", Limits(U64(0, 1), FALSE, U64(0, 0), FALSE)),
   TableType("I32", Limits(U64(0, 1), FALSE, U64(0, 0), FALSE))}

\* CheckTableIndex(Var, Opcode): the wording kept from the previous validator.
CheckTableIndexOpcode(table_var, opcode) ==
  IF table_var.index >= Len(tables_)
    THEN PrintError(table_var.loc,
                    opcode.name
                      \o " requires table to be an imported or defined table.")
    ELSE NoError

CheckElemSegmentIndex(elem_segment_var) ==
  CheckIndex(elem_segment_var, elem_segments_, "elem_segment")

CheckDataSegmentIndex(data_segment_var) ==
  CheckIndex(data_segment_var, data_segments_, "data_segment")

\* An instruction event: expr_loc_ is set, the module-level checks `mod` have
\* run, then the TypeChecker transition.  `oob` says the handler read an entry
\* past the end of a vector to feed the transition; the two runs can then be
\* handed different entries.
Instr(op, loc, mod, oob, args) ==
  /\ budget > 0
  /\ expr_loc_' = loc
  /\ \E tc \in TypeCheckerTransition(loc), twin_tc \in TypeCheckerTransition(loc) :
       /\ ~oob => twin_tc = tc
       /\ ReturnBoth(op, Or(mod, tc), Or(mod, twin_tc), mod, oob, args)
  /\ UNCHANGED <<options_, sigVars, storeVars, globalVars, segVars, refVars,
                 exportVars, localVars, starts_>>

\* What an instruction with one index was given, and what it read.
IndexArgs(loc, var, size, entry) ==
  [loc |-> loc, index |-> var.index, in_range |-> var.index < size,
   handed |-> entry]

\* local.get, local.set and local.tee: the type starts as Any, CheckLocalIndex
\* overwrites it when the index resolves, and the TypeChecker is handed it.
LocalInstr(op, loc, local_var) ==
  Instr(op, loc, [result |-> CheckLocalIndex(local_var).result,
                  diags  |-> CheckLocalIndex(local_var).diags],
        FALSE,
        [loc |-> loc, index |-> local_var.index,
         type |-> CheckLocalIndex(local_var).type])

OnLocalGet(loc, local_var) == LocalInstr("OnLocalGet", loc, local_var)

OnLocalSet(loc, local_var) == LocalInstr("OnLocalSet", loc, local_var)

OnLocalTee(loc, local_var) == LocalInstr("OnLocalTee", loc, local_var)

\* A block signature: a type index, or an inline type (Void or one result).
TypeIndexSig(index) == [is_index |-> TRUE, index |-> index]

InlineSig(type) == [is_index |-> FALSE, type |-> type]

IsTypeIndex(sig_type) == sig_type.is_index

GetTypeIndex(sig_type) == sig_type.index

\* Void gives no result, any other inline type gives that one result.
GetInlineTypeVector(sig_type) ==
  IF sig_type.type = "Void" THEN <<>> ELSE <<sig_type.type>>

BlockSignature(r, param_types, result_types) ==
  [result |-> r.result, diags |-> r.diags,
   param_types |-> param_types, result_types |-> result_types]

\* CheckBlockSignature without the two checks made when multi_value is off.
CheckBlockSignature_NoFeatureCheck(loc, opcode, sig_type) ==
  IF IsTypeIndex(sig_type)
    THEN IF Failed(CheckTypeIndex(Var(GetTypeIndex(sig_type), loc)))
           THEN BlockSignature(CheckTypeIndex(Var(GetTypeIndex(sig_type), loc)),
                               <<>>, <<>>)
           ELSE BlockSignature(NoError,
                               types_[GetTypeIndex(sig_type) + 1].params,
                               types_[GetTypeIndex(sig_type) + 1].results)
    ELSE BlockSignature(NoError, <<>>, GetInlineTypeVector(sig_type))

\* CheckBlockSignature: the outcome, *out_param_types and *out_result_types.
CheckBlockSignature(loc, opcode, sig_type) ==
  IF IsTypeIndex(sig_type)
    THEN LET sig_index == GetTypeIndex(sig_type)
             chk == CheckTypeIndex(Var(sig_index, loc))
         IN IF Failed(chk)
              THEN BlockSignature(chk, <<>>, <<>>)
              ELSE LET func_type == types_[sig_index + 1]
                       params_check ==
                         IF func_type.params # <<>>
                              /\ ~options_.multi_value_enabled
                           THEN PrintError(loc, opcode.name
                                  \o " params not currently supported.")
                           ELSE NoError
                       results_check ==
                         IF Len(func_type.results) > 1
                              /\ ~options_.multi_value_enabled
                           THEN PrintError(loc, "multiple " \o opcode.name
                                  \o " results not currently supported.")
                           ELSE NoError
                   IN BlockSignature(Or(params_check, results_check),
                                     func_type.params, func_type.results)
    ELSE BlockSignature(NoError, <<>>, GetInlineTypeVector(sig_type))

\* block, loop, if and try: the signature is expanded and checked, and the
\* TypeChecker is handed the expanded lists whatever the check said.
BlockInstr(op, loc, opcode, sig_type) ==
  LET sig == CheckBlockSignature(loc, opcode, sig_type)
  IN Instr(op, loc, [result |-> sig.result, diags |-> sig.diags], FALSE,
           [loc |-> loc, sig_type |-> sig_type,
            param_types |-> sig.param_types,
            result_types |-> sig.result_types])

OnBlock(loc, sig_type) == BlockInstr("OnBlock", loc, [name |-> "block"], sig_type)

OnIf(loc, sig_type) == BlockInstr("OnIf", loc, [name |-> "if"], sig_type)

OnLoop(loc, sig_type) == BlockInstr("OnLoop", loc, [name |-> "loop"], sig_type)

OnTry(loc, sig_type) == BlockInstr("OnTry", loc, [name |-> "try"], sig_type)

\* What global.get and global.set were given, and the type they handed on.
GlobalArgs(loc, global_var) ==
  [loc |-> loc, index |-> global_var.index,
   in_range |-> global_var.index < Len(globals_),
   type |-> OutGlobalType(global_var).type]

OnGlobalGet(loc, global_var) ==
  Instr("OnGlobalGet", loc, CheckGlobalIndex(global_var), FALSE,
        GlobalArgs(loc, global_var))

\* The module-level checks of OnGlobalSet: the index, then mutability of what
\* CheckGlobalIndex handed back.
OnGlobalSetChecks(loc, global_var) ==
  Or(CheckGlobalIndex(global_var),
     IF ~OutGlobalType(global_var).mutable_
       THEN PrintError(loc, "can't global.set on immutable global")
       ELSE NoError)

OnGlobalSet(loc, global_var) ==
  Instr("OnGlobalSet", loc, OnGlobalSetChecks(loc, global_var), FALSE,
        GlobalArgs(loc, global_var))

\* ref.func as an instruction with its check left to EndModule.
OnRefFunc_NoDeclaredCheck(loc, func_var) ==
  Instr("OnRefFunc", loc, NoError, FALSE,
        [loc |-> loc, index |-> func_var.index,
         in_range |-> func_var.index < Len(funcs_)])

\* ref.func as an instruction: the function must be declared by now.
OnRefFunc(loc, func_var) ==
  Instr("OnRefFunc", loc, CheckDeclaredFunc(func_var), FALSE,
        [loc |-> loc, index |-> func_var.index,
         in_range |-> func_var.index < Len(funcs_)])

OnCall(loc, func_var) ==
  \E func_type \in VectorAt(funcs_, func_var.index, GarbageFuncTypes) :
    Instr("OnCall", loc, CheckFuncIndex(func_var),
          ~(func_var.index < Len(funcs_)),
          IndexArgs(loc, func_var, Len(funcs_), func_type))

OnCallIndirect(loc, sig_var, table_var) ==
  \E func_type \in VectorAt(types_, sig_var.index, GarbageFuncTypes) :
    Instr("OnCallIndirect", loc,
          Or(CheckTypeIndex(sig_var), CheckTableIndex(table_var)),
          ~(sig_var.index < Len(types_)),
          [loc |-> loc, index |-> sig_var.index,
           in_range |-> sig_var.index < Len(types_) /\ table_var.index < Len(tables_),
           table_index |-> table_var.index, handed |-> func_type])

\* OnReturnCall makes no index check.
OnReturnCall(loc, func_var) ==
  \E func_type \in VectorAt(funcs_, func_var.index, GarbageFuncTypes) :
    Instr("OnReturnCall", loc, NoError, ~(func_var.index < Len(funcs_)),
          IndexArgs(loc, func_var, Len(funcs_), func_type))

\* OnReturnCallIndirect checks the table index, not the type index.
OnReturnCallIndirect(loc, sig_var, table_var) ==
  \E func_type \in VectorAt(types_, sig_var.index, GarbageFuncTypes) :
    Instr("OnReturnCallIndirect", loc,
          CheckTableIndexOpcode(table_var, [name |-> "return_call_indirect"]),
          ~(sig_var.index < Len(types_)),
          [loc |-> loc, index |-> sig_var.index,
           in_range |-> sig_var.index < Len(types_) /\ table_var.index < Len(tables_),
           table_index |-> table_var.index, handed |-> func_type])

\* OnBrOnExn checks the event index and reads events_[index] all the same.
OnBrOnExn(loc, depth, event_var) ==
  \E event_type \in VectorAt(events_, event_var.index, GarbageEventTypes) :
    Instr("OnBrOnExn", loc, CheckEventIndex(event_var),
          ~(event_var.index < Len(events_)),
          IndexArgs(loc, event_var, Len(events_), event_type))

\* OnThrow makes no index check.
OnThrow(loc, event_var) ==
  \E event_type \in VectorAt(events_, event_var.index, GarbageEventTypes) :
    Instr("OnThrow", loc, NoError, ~(event_var.index < Len(events_)),
          IndexArgs(loc, event_var, Len(events_), event_type))

\* table.fill, table.get, table.grow and table.set make no index check.
TableInstr(op, loc, table_var) ==
  \E table_type \in VectorAt(tables_, table_var.index, GarbageTableTypes) :
    Instr(op, loc, NoError, ~(table_var.index < Len(tables_)),
          IndexArgs(loc, table_var, Len(tables_), table_type.element))

OnTableFill(loc, table_var) == TableInstr("OnTableFill", loc, table_var)

OnTableGet(loc, table_var) == TableInstr("OnTableGet", loc, table_var)

OnTableGrow(loc, table_var) == TableInstr("OnTableGrow", loc, table_var)

OnTableSet(loc, table_var) == TableInstr("OnTableSet", loc, table_var)

\* The module-level checks of OnTableInit: CHECK_RESULT returns at a table
\* index out of range, before the elem segment index is looked at.
OnTableInitChecks(segment_var, table_var) ==
  LET chk == CheckTableIndexOpcode(table_var, [name |-> "table.init"])
  IN IF Failed(chk) THEN chk
     ELSE CheckElemSegmentIndex(segment_var)

\* OnTableInit runs the TypeChecker transition first, then its own checks.
OnTableInit(loc, segment_var, table_var) ==
  /\ budget > 0
  /\ expr_loc_' = loc
  /\ \E tc \in TypeCheckerTransition(loc) :
       ReturnInstr("OnTableInit",
                   Or(tc, OnTableInitChecks(segment_var, table_var)),
                   OnTableInitChecks(segment_var, table_var), FALSE,
                   [loc |-> loc, segment_index |-> segment_var.index,
                    table_index |-> table_var.index,
                    segment_in_range |-> segment_var.index < elem_segments_,
                    table_in_range |-> table_var.index < Len(tables_)])
  /\ UNCHANGED <<options_, sigVars, storeVars, globalVars, segVars, refVars,
                 exportVars, localVars, starts_>>

\* CheckMemoryIndex(Var, Opcode): the wording kept from the previous validator.
CheckMemoryIndexOpcode(memory_var, opcode) ==
  IF memory_var.index >= Len(memories_)
    THEN PrintError(memory_var.loc,
                    opcode.name \o " requires an imported or defined memory.")
    ELSE NoError

\* What an instruction that names a segment was given.
SegmentArgs(loc, segment_var) ==
  [loc |-> loc, index |-> segment_var.index]

\* memory.init: memory 0 must exist, then the data segment index.
OnMemoryInit(loc, segment_var) ==
  Instr("OnMemoryInit", loc,
        Or(CheckMemoryIndexOpcode(Var(0, loc), [name |-> "memory.init"]),
           CheckDataSegmentIndex(segment_var)),
        FALSE, SegmentArgs(loc, segment_var))

\* data.drop still asks for memory 0.
OnDataDrop(loc, segment_var) ==
  Instr("OnDataDrop", loc,
        Or(CheckMemoryIndexOpcode(Var(0, loc), [name |-> "data.drop"]),
           CheckDataSegmentIndex(segment_var)),
        FALSE, SegmentArgs(loc, segment_var))

\* elem.drop still asks for table 0.
OnElemDrop(loc, segment_var) ==
  Instr("OnElemDrop", loc,
        Or(CheckTableIndexOpcode(Var(0, loc), [name |-> "elem.drop"]),
           CheckElemSegmentIndex(segment_var)),
        FALSE, SegmentArgs(loc, segment_var))

\* else with the assignment to expr_loc_ it has under #if 0.
OnElse_SetsExprLoc(loc) ==
  /\ budget > 0
  /\ expr_loc_' = loc
  /\ \E tc \in TypeCheckerTransition(loc) :
       ReturnInstr("OnElse", tc, NoError, FALSE, [loc |-> loc])
  /\ UNCHANGED <<options_, sigVars, storeVars, globalVars, segVars, refVars,
                 exportVars, localVars, starts_>>

\* else leaves expr_loc_ alone: a TypeChecker diagnostic goes to the location
\* it points at.
OnElse(loc) ==
  /\ budget > 0
  /\ \E tc \in TypeCheckerTransition(expr_loc_) :
       ReturnInstr("OnElse", tc, NoError, FALSE, [loc |-> loc])
  /\ UNCHANGED <<options_, sigVars, storeVars, globalVars, segVars, refVars,
                 exportVars, bodyVars, starts_>>

OnEnd(loc) == Instr("OnEnd", loc, NoError, FALSE, [loc |-> loc])

\* nop sets expr_loc_ and makes no TypeChecker transition.
OnNop(loc) ==
  /\ budget > 0
  /\ expr_loc_' = loc
  /\ ReturnInstr("OnNop", NoError, NoError, FALSE, [loc |-> loc])
  /\ UNCHANGED <<options_, sigVars, storeVars, globalVars, segVars, refVars,
                 exportVars, localVars, starts_>>

----------------------------------------------------------------------------
(* Initial state: a freshly constructed validator *)

NoFeatures ==
  [multi_value_enabled |-> FALSE, reference_types_enabled |-> FALSE,
   mutable_globals_enabled |-> FALSE, threads_enabled |-> FALSE]

InitWith(features, depth) ==
  /\ options_ \in features
  /\ types_ = <<>> /\ funcs_ = <<>> /\ tables_ = <<>> /\ memories_ = <<>>
  /\ globals_ = <<>> /\ num_imported_globals_ = 0 /\ events_ = <<>>
  /\ starts_ = 0 /\ elem_segments_ = 0 /\ data_segments_ = 0
  /\ export_names_ = {} /\ declared_funcs_ = {} /\ init_expr_funcs_ = <<>>
  /\ locals_ = <<>> /\ expr_loc_ = "none" /\ errors_ = <<>>
  /\ budget = depth
  /\ last = [op |-> "none", result |-> Ok, diags |-> <<>>, module |-> Ok,
             oob |-> FALSE, args |-> <<>>]
  /\ issued = [op \in Ops |-> 0]
  /\ imported = <<>> /\ export_log = <<>> /\ ref_func_log = {}
  /\ late_declared = {}
  /\ elem_func_log = {}
  /\ returned = <<>>
  /\ local_log = [params |-> <<>>, decls |-> <<>>]
  /\ twin = [errors |-> <<>>, returned |-> <<>>]

----------------------------------------------------------------------------
(* Inputs *)

MaxIndex == 2
Indices == 0..MaxIndex

Loc == "L1"

Nullary == FuncType(<<>>, <<>>)

Signatures ==
  {Nullary, FuncType(<<"I32">>, <<>>), FuncType(<<>>, <<"I32">>),
   FuncType(<<>>, <<"I32", "I32">>)}

ExternalKinds == {"Func", "Table", "Memory", "Global", "Event"}

SegmentKinds == {"Active", "Passive"}

\* 1, 65536, 65537, 2^32 - 1, 2^32: on and around the two absolute maxima.
LimitValues ==
  {U64(0, 1), U64(1, 0), U64(1, 1), U64(65535, 65535), U64(65536, 0)}

AllLimits ==
  {Limits(i, TRUE, m, s) : i \in LimitValues, m \in LimitValues, s \in BOOLEAN}
  \cup {Limits(i, FALSE, U64(0, 0), s) : i \in LimitValues, s \in BOOLEAN}

PlainLimits == Limits(U64(0, 1), FALSE, U64(0, 0), FALSE)

SharedLimits == Limits(U64(0, 1), TRUE, U64(0, 1), TRUE)

Features(mv, rt, mg, th) ==
  [multi_value_enabled |-> mv, reference_types_enabled |-> rt,
   mutable_globals_enabled |-> mg, threads_enabled |-> th]

----------------------------------------------------------------------------
(* The declarations that carry an index, on tables of every length *)

DeclDepth == 3

Init == InitWith({NoFeatures}, DeclDepth)

Next ==
  \/ OnType(Loc, <<>>, <<>>)
  \/ \E i \in Indices : OnFunction(Loc, Var(i, Loc))
  \/ OnTable(Loc, "Funcref", PlainLimits)
  \/ OnMemory(Loc, PlainLimits)
  \/ OnGlobalImport(Loc, "I32", FALSE)
  \/ OnGlobal(Loc, "I32", FALSE)
  \/ \E i \in Indices : OnGlobalInitExpr_GlobalGet(Loc, Var(i, Loc))
  \/ \E i \in Indices : OnGlobalInitExpr_RefFunc(Loc, Var(i, Loc))
  \/ \E i \in Indices : OnEvent(Loc, Var(i, Loc))
  \/ \E k \in ExternalKinds, i \in Indices : OnExport(Loc, k, Var(i, Loc), "a")
  \/ \E i \in Indices : OnStart(Loc, Var(i, Loc))
  \/ \E k \in SegmentKinds, i \in Indices :
       OnElemSegment(Loc, Var(i, Loc), k, "Funcref")
  \/ \E i \in Indices : OnElemSegmentInitExpr_GlobalGet(Loc, Var(i, Loc))
  \/ \E i \in Indices : OnElemSegmentElemExpr_RefFunc(Loc, Var(i, Loc))
  \/ \E k \in SegmentKinds, i \in Indices : OnDataSegment(Loc, Var(i, Loc), k)
  \/ \E i \in Indices : OnDataSegmentInitExpr_GlobalGet(Loc, Var(i, Loc))

Spec == Init /\ [][Next]_vars

----------------------------------------------------------------------------
(* Exports: functions, globals and their exports *)

ExportDepth == 4

ExportNames == {"a", "b"}

InitExport == InitWith({NoFeatures}, ExportDepth)

NextExport ==
  \/ OnType(Loc, <<>>, <<>>)
  \/ OnFunction(Loc, Var(0, Loc))
  \/ OnGlobal(Loc, "I32", FALSE)
  \/ \E k \in {"Func", "Global"}, i \in 0..1, n \in ExportNames :
       OnExport(Loc, k, Var(i, Loc), n)

SpecExport == InitExport /\ [][NextExport]_vars

----------------------------------------------------------------------------
(* ref.func in global initializers and elem segments, and the module's end *)

RefFuncDepth == 6

InitRefFunc == InitWith({NoFeatures}, RefFuncDepth)

NextRefFunc ==
  \/ OnType(Loc, <<>>, <<>>)
  \/ OnFunction(Loc, Var(0, Loc))
  \/ OnGlobal(Loc, "Funcref", FALSE)
  \/ \E i \in 0..1 : OnGlobalInitExpr_RefFunc(Loc, Var(i, Loc))
  \/ \E i \in 0..1 : OnElemSegmentElemExpr_RefFunc(Loc, Var(i, Loc))
  \/ EndModule

SpecRefFunc == InitRefFunc /\ [][NextRefFunc]_vars

----------------------------------------------------------------------------
(* Globals and global.get in their initializers *)

GlobalDepth == 4

GlobalValueTypes == {"I32", "Funcref", "Anyref"}

InitGlobal ==
  InitWith({Features(FALSE, FALSE, mg, FALSE) : mg \in BOOLEAN}, GlobalDepth)

NextGlobal ==
  \/ \E t \in GlobalValueTypes, m \in BOOLEAN : OnGlobalImport(Loc, t, m)
  \/ \E t \in GlobalValueTypes, m \in BOOLEAN : OnGlobal(Loc, t, m)
  \/ \E i \in Indices : OnGlobalInitExpr_GlobalGet(Loc, Var(i, Loc))

SpecGlobal == InitGlobal /\ [][NextGlobal]_vars

----------------------------------------------------------------------------
(* Limits of tables and memories *)

LimitsDepth == 2

InitLimits ==
  InitWith({Features(FALSE, rt, FALSE, th) : rt \in BOOLEAN, th \in BOOLEAN},
           LimitsDepth)

NextLimits ==
  \/ \E l \in AllLimits : OnTable(Loc, "Funcref", l)
  \/ \E l \in AllLimits : OnMemory(Loc, l)

SpecLimits == InitLimits /\ [][NextLimits]_vars

----------------------------------------------------------------------------
(* How many tables and memories a module may hold *)

StoreDepth == 4

InitStore ==
  InitWith({Features(FALSE, rt, FALSE, FALSE) : rt \in BOOLEAN}, StoreDepth)

NextStore ==
  \/ OnType(Loc, <<>>, <<>>)
  \/ \E t \in {"Funcref", "Externref", "I32"} : OnTable(Loc, t, PlainLimits)
  \/ \E l \in {PlainLimits, SharedLimits} : OnMemory(Loc, l)

SpecStore == InitStore /\ [][NextStore]_vars

----------------------------------------------------------------------------
(* The start declaration: types, functions, start *)

StartDepth == 5

InitStart == InitWith({NoFeatures}, StartDepth)

NextStart ==
  \/ \E sig \in Signatures : OnType(Loc, sig.params, sig.results)
  \/ \E i \in Indices : OnFunction(Loc, Var(i, Loc))
  \/ \E i \in Indices : OnStart(Loc, Var(i, Loc))

SpecStart == InitStart /\ [][NextStart]_vars

----------------------------------------------------------------------------
(* Alignment of loads, stores and atomic operations on memory 0 *)

AlignDepth == 2

Alignments == {0, 1, 2, 3, 4, 8}

Opcode(name, memory_size) == [name |-> name, memory_size |-> memory_size]

\* Opcodes of natural alignment 2 and 4, as the opcode catalog gives them.
LoadOpcodes == {Opcode("i32.load16_u", 2), Opcode("i32.load", 4)}
SplatOpcodes == {Opcode("v16x8.load_splat", 2), Opcode("v32x4.load_splat", 4)}
StoreOpcodes == {Opcode("i32.store16", 2), Opcode("i32.store", 4)}
AtomicLoadOpcodes ==
  {Opcode("i32.atomic.load16_u", 2), Opcode("i32.atomic.load", 4)}
AtomicStoreOpcodes ==
  {Opcode("i32.atomic.store16", 2), Opcode("i32.atomic.store", 4)}
AtomicRmwOpcodes ==
  {Opcode("i32.atomic.rmw16.add_u", 2), Opcode("i32.atomic.rmw.add", 4)}
AtomicCmpxchgOpcodes ==
  {Opcode("i32.atomic.rmw16.cmpxchg_u", 2), Opcode("i32.atomic.rmw.cmpxchg", 4)}
AtomicWaitOpcodes == {Opcode("i32.atomic.wait", 4)}
AtomicNotifyOpcodes == {Opcode("atomic.notify", 4)}

InitAlign == InitWith({Features(FALSE, FALSE, FALSE, TRUE)}, AlignDepth)

NextAlign ==
  \/ \E l \in {PlainLimits, SharedLimits} : OnMemory(Loc, l)
  \/ \E o \in LoadOpcodes, a \in Alignments : OnLoad(Loc, o, a)
  \/ \E o \in SplatOpcodes, a \in Alignments : OnLoadSplat(Loc, o, a)
  \/ \E o \in StoreOpcodes, a \in Alignments : OnStore(Loc, o, a)
  \/ \E o \in AtomicLoadOpcodes, a \in Alignments : OnAtomicLoad(Loc, o, a)
  \/ \E o \in AtomicStoreOpcodes, a \in Alignments : OnAtomicStore(Loc, o, a)
  \/ \E o \in AtomicRmwOpcodes, a \in Alignments : OnAtomicRmw(Loc, o, a)
  \/ \E o \in AtomicCmpxchgOpcodes, a \in Alignments :
       OnAtomicRmwCmpxchg(Loc, o, a)
  \/ \E o \in AtomicWaitOpcodes, a \in Alignments : OnAtomicWait(Loc, o, a)
  \/ \E o \in AtomicNotifyOpcodes, a \in Alignments : OnAtomicNotify(Loc, o, a)

SpecAlign == InitAlign /\ [][NextAlign]_vars

----------------------------------------------------------------------------
(* How failures are reported: declarations that fail in several ways,      *)
(* table.init, and the module's end                                        *)

ErrorsDepth == 4

InitErrors == InitWith({NoFeatures}, ErrorsDepth)

NextErrors ==
  \/ \E sig \in {Nullary, FuncType(<<>>, <<"I32", "I32">>)} :
       OnType(Loc, sig.params, sig.results)
  \/ \E i \in 0..1 : OnFunction(Loc, Var(i, Loc))
  \/ OnTable(Loc, "Funcref", PlainLimits)
  \/ OnMemory(Loc, Limits(U64(1, 1), TRUE, U64(0, 1), TRUE))
  \/ \E m \in BOOLEAN : OnGlobalImport(Loc, "I32", m)
  \/ OnGlobal(Loc, "Funcref", FALSE)
  \/ OnGlobalInitExpr_Const(Loc, "I32")
  \/ \E i \in 0..1 : OnGlobalInitExpr_RefFunc(Loc, Var(i, Loc))
  \/ OnExport(Loc, "Func", Var(0, Loc), "a")
  \/ OnElemSegment(Loc, Var(0, Loc), "Active", "Funcref")
  \/ OnElemSegmentInitExpr_Other(Loc)
  \/ OnElemSegmentElemExpr_RefFunc(Loc, Var(0, Loc))
  \/ OnDataCount(1)
  \/ \E s \in 0..1, t \in 0..1 : OnTableInit(Loc, Var(s, Loc), Var(t, Loc))
  \/ EndModule

SpecErrors == InitErrors /\ [][NextErrors]_vars

----------------------------------------------------------------------------
(* Function bodies: signatures with parameters, bodies and their locals *)

BodyDepth == 5

\* 0, 1, 2^28 and 2^32 - 1 locals in one declaration.
LocalCounts == {U64(0, 0), U64(0, 1), U64(4096, 0), U64(65535, 65535)}

BodySignatures == {Nullary, FuncType(<<"I32", "F32">>, <<"I32">>)}

InitBody == InitWith({NoFeatures}, BodyDepth)

NextBody ==
  \/ \E sig \in BodySignatures : OnType(Loc, sig.params, sig.results)
  \/ \E i \in 0..1 : OnFunction(Loc, Var(i, Loc))
  \/ \E f \in 0..1 : BeginFunctionBody(Loc, f)
  \/ \E c \in LocalCounts : OnLocalDecl(Loc, c, "F64")

SpecBody == InitBody /\ [][NextBody]_vars

----------------------------------------------------------------------------
(* Offsets of elem and data segments: globals, then every initializer form *)

SegmentDepth == 3

OffsetTypes == {"I32", "I64", "Funcref"}

InitSegment == InitWith({NoFeatures}, SegmentDepth)

NextSegment ==
  \/ \E t \in OffsetTypes : OnGlobalImport(Loc, t, FALSE)
  \/ \E t \in OffsetTypes, m \in BOOLEAN : OnGlobal(Loc, t, m)
  \/ \E t \in OffsetTypes : OnElemSegmentInitExpr_Const(Loc, t)
  \/ \E i \in Indices : OnElemSegmentInitExpr_GlobalGet(Loc, Var(i, Loc))
  \/ OnElemSegmentInitExpr_Other(Loc)
  \/ \E t \in OffsetTypes : OnDataSegmentInitExpr_Const(Loc, t)
  \/ \E i \in Indices : OnDataSegmentInitExpr_GlobalGet(Loc, Var(i, Loc))
  \/ OnDataSegmentInitExpr_Other(Loc)

SpecSegment == InitSegment /\ [][NextSegment]_vars

----------------------------------------------------------------------------
(* Instructions that name a function, a type, a table or an event *)

CallDepth == 3

InitCall == InitWith({NoFeatures}, CallDepth)

NextCall ==
  \/ \E sig \in {Nullary, FuncType(<<"I32">>, <<>>)} :
       OnType(Loc, sig.params, sig.results)
  \/ OnFunction(Loc, Var(0, Loc))
  \/ OnTable(Loc, "Funcref", PlainLimits)
  \/ OnEvent(Loc, Var(0, Loc))
  \/ \E i \in 0..1 : OnCall(Loc, Var(i, Loc))
  \/ \E i \in 0..1, t \in 0..1 : OnCallIndirect(Loc, Var(i, Loc), Var(t, Loc))
  \/ \E i \in 0..1 : OnReturnCall(Loc, Var(i, Loc))
  \/ \E i \in 0..1, t \in 0..1 :
       OnReturnCallIndirect(Loc, Var(i, Loc), Var(t, Loc))
  \/ \E i \in 0..1 : OnThrow(Loc, Var(i, Loc))
  \/ \E i \in 0..1 : OnBrOnExn(Loc, Var(0, Loc), Var(i, Loc))
  \/ \E i \in 0..1 : OnTableGet(Loc, Var(i, Loc))
  \/ \E i \in 0..1 : OnTableSet(Loc, Var(i, Loc))
  \/ \E i \in 0..1 : OnTableGrow(Loc, Var(i, Loc))
  \/ \E i \in 0..1 : OnTableFill(Loc, Var(i, Loc))

SpecCall == InitCall /\ [][NextCall]_vars

----------------------------------------------------------------------------
(* Reading locals inside a function body *)

LocalDepth == 6

SmallLocalCounts == {U64(0, c) : c \in 0..2}

LocalIndices == {U64(0, i) : i \in 0..3}

InitLocal == InitWith({NoFeatures}, LocalDepth)

\* The events arrive in the order of the binary format: the type and
\* function sections come before the code section, which has bodies when the
\* function section has entries, and inside a body the local declarations and
\* the instructions follow BeginFunctionBody.
NextLocal ==
  \/ issued["BeginFunctionBody"] = 0 /\ OnType(Loc, <<"I32">>, <<>>)
  \/ issued["BeginFunctionBody"] = 0 /\ OnFunction(Loc, Var(0, Loc))
  \/ funcs_ # <<>> /\ \E f \in 0..1 : BeginFunctionBody(Loc, f)
  \/ /\ issued["BeginFunctionBody"] > 0
     /\ \/ \E c \in SmallLocalCounts, t \in {"I64", "F64"} :
             OnLocalDecl(Loc, c, t)
        \/ \E i \in LocalIndices : OnLocalGet(Loc, Var(i, Loc))
        \/ \E i \in LocalIndices : OnLocalSet(Loc, Var(i, Loc))
        \/ \E i \in LocalIndices : OnLocalTee(Loc, Var(i, Loc))

SpecLocal == InitLocal /\ [][NextLocal]_vars

----------------------------------------------------------------------------
(* ref.func as an instruction *)

RefInstrDepth == 5

InitRefInstr == InitWith({NoFeatures}, RefInstrDepth)

NextRefInstr ==
  \/ OnType(Loc, <<>>, <<>>)
  \/ OnFunction(Loc, Var(0, Loc))
  \/ \E i \in 0..1 : OnElemSegmentElemExpr_RefFunc(Loc, Var(i, Loc))
  \/ \E i \in 0..1 : OnRefFunc(Loc, Var(i, Loc))
  \/ EndModule

SpecRefInstr == InitRefInstr /\ [][NextRefInstr]_vars

----------------------------------------------------------------------------
(* global.get and global.set *)

GlobalInstrDepth == 4

InitGlobalInstr == InitWith({NoFeatures}, GlobalInstrDepth)

NextGlobalInstr ==
  \/ \E t \in {"I32", "F32"}, m \in BOOLEAN : OnGlobal(Loc, t, m)
  \/ \E i \in 0..1 : OnGlobalGet(Loc, Var(i, Loc))
  \/ \E i \in 0..1 : OnGlobalSet(Loc, Var(i, Loc))

SpecGlobalInstr == InitGlobalInstr /\ [][NextGlobalInstr]_vars

----------------------------------------------------------------------------
(* Block signatures *)

BlockDepth == 3

BlockTypes ==
  {Nullary, FuncType(<<"I32">>, <<>>), FuncType(<<>>, <<"I32", "I32">>)}

BlockSigs ==
  {InlineSig("Void"), InlineSig("I32"), TypeIndexSig(0), TypeIndexSig(1)}

InitBlock ==
  InitWith({Features(mv, FALSE, FALSE, FALSE) : mv \in BOOLEAN}, BlockDepth)

NextBlock ==
  \/ \E sig \in BlockTypes : OnType(Loc, sig.params, sig.results)
  \/ \E sig \in BlockSigs : OnBlock(Loc, sig)
  \/ \E sig \in {InlineSig("I32"), TypeIndexSig(0)} : OnLoop(Loc, sig)
  \/ \E sig \in {InlineSig("Void"), TypeIndexSig(0)} : OnIf(Loc, sig)
  \/ \E sig \in {InlineSig("I32"), TypeIndexSig(1)} : OnTry(Loc, sig)

SpecBlock == InitBlock /\ [][NextBlock]_vars

----------------------------------------------------------------------------
(* Every event, for what it does to the module's tables *)

FrameDepth == 3

InitFrame == InitWith({NoFeatures}, FrameDepth)

\* The declarations, accepted and rejected ones.
FrameDeclarations ==
  \/ OnType(Loc, <<>>, <<>>)
  \/ \E i \in 0..1 : OnFunction(Loc, Var(i, Loc))
  \/ \E l \in {PlainLimits, SharedLimits} : OnTable(Loc, "Funcref", l)
  \/ \E l \in {PlainLimits, SharedLimits} : OnMemory(Loc, l)
  \/ \E m \in BOOLEAN : OnGlobalImport(Loc, "I32", m)
  \/ OnGlobal(Loc, "Funcref", FALSE)
  \/ OnGlobalInitExpr_RefFunc(Loc, Var(0, Loc))
  \/ OnEvent(Loc, Var(0, Loc))
  \/ \E name \in ExportNames : OnExport(Loc, "Memory", Var(0, Loc), name)
  \/ OnStart(Loc, Var(0, Loc))
  \/ OnElemSegment(Loc, Var(0, Loc), "Active", "Funcref")
  \/ OnElemSegmentElemExpr_RefFunc(Loc, Var(0, Loc))
  \/ OnDataCount(1)
  \/ OnDataSegment(Loc, Var(0, Loc), "Active")

\* The events of the code section, and EndModule.
FrameBodyEvents ==
  \/ BeginFunctionBody(Loc, 0)
  \/ OnLocalDecl(Loc, U64(0, 1), "I32")
  \/ EndFunctionBody(Loc)
  \/ EndModule
  \/ OnLocalGet(Loc, Var(U64(0, 0), Loc))
  \/ OnLocalSet(Loc, Var(U64(0, 0), Loc))
  \/ OnLocalTee(Loc, Var(U64(0, 0), Loc))
  \/ OnGlobalGet(Loc, Var(0, Loc))
  \/ OnGlobalSet(Loc, Var(0, Loc))
  \/ OnRefFunc(Loc, Var(0, Loc))
  \/ OnCall(Loc, Var(0, Loc))
  \/ OnCallIndirect(Loc, Var(0, Loc), Var(0, Loc))
  \/ OnReturnCall(Loc, Var(0, Loc))
  \/ OnReturnCallIndirect(Loc, Var(0, Loc), Var(0, Loc))
  \/ OnThrow(Loc, Var(0, Loc))
  \/ OnBrOnExn(Loc, Var(0, Loc), Var(0, Loc))
  \/ OnTableGet(Loc, Var(0, Loc))
  \/ OnTableSet(Loc, Var(0, Loc))
  \/ OnTableGrow(Loc, Var(0, Loc))
  \/ OnTableFill(Loc, Var(0, Loc))
  \/ OnTableInit(Loc, Var(0, Loc), Var(0, Loc))
  \/ OnElemDrop(Loc, Var(0, Loc))
  \/ OnMemoryInit(Loc, Var(0, Loc))
  \/ OnDataDrop(Loc, Var(0, Loc))
  \/ OnBlock(Loc, TypeIndexSig(0))
  \/ OnLoop(Loc, InlineSig("I32"))
  \/ OnIf(Loc, InlineSig("Void"))
  \/ OnTry(Loc, TypeIndexSig(0))
  \/ OnElse(Loc)
  \/ OnEnd(Loc)
  \/ OnNop(Loc)
  \/ OnLoad(Loc, Opcode("i32.load", 4), 4)
  \/ OnLoadSplat(Loc, Opcode("v32x4.load_splat", 4), 4)
  \/ OnStore(Loc, Opcode("i32.store", 4), 4)
  \/ OnAtomicLoad(Loc, Opcode("i32.atomic.load", 4), 4)
  \/ OnAtomicStore(Loc, Opcode("i32.atomic.store", 4), 4)
  \/ OnAtomicRmw(Loc, Opcode("i32.atomic.rmw.add", 4), 4)
  \/ OnAtomicRmwCmpxchg(Loc, Opcode("i32.atomic.rmw.cmpxchg", 4), 4)
  \/ OnAtomicWait(Loc, Opcode("i32.atomic.wait", 4), 4)
  \/ OnAtomicNotify(Loc, Opcode("atomic.notify", 4), 4)

\* The code section and the end of the module come after the declarations:
\* the run ends with one of their events.
NextFrame ==
  \/ FrameDeclarations
  \/ budget = 1 /\ FrameBodyEvents

SpecFrame == InitFrame /\ [][NextFrame]_vars

----------------------------------------------------------------------------
(* Where a TypeChecker diagnostic is recorded *)

LocDepth == 3

Locs == {"L1", "L2"}

InitLoc == InitWith({NoFeatures}, LocDepth)

\* A body begins, then its events follow, each at a location of its own.
NextLoc ==
  \/ \E loc \in Locs : BeginFunctionBody(loc, 0)
  \/ /\ issued["BeginFunctionBody"] > 0
     /\ \/ \E loc \in Locs : OnLocalDecl(loc, U64(0, 1), "I32")
        \/ \E loc \in Locs : OnNop(loc)
        \/ \E loc \in Locs : OnIf(loc, InlineSig("Void"))
        \/ \E loc \in Locs : OnElse(loc)
        \/ \E loc \in Locs : OnEnd(loc)
        \/ \E loc \in Locs : OnGlobalSet(loc, Var(0, loc))
        \/ \E loc \in Locs : OnTableInit(loc, Var(0, loc), Var(0, loc))
        \/ \E loc \in Locs : EndFunctionBody(loc)

SpecLoc == InitLoc /\ [][NextLoc]_vars

----------------------------------------------------------------------------
(* Instructions that name a data or elem segment *)

SegIndexDepth == 4

InitSegIndex == InitWith({NoFeatures}, SegIndexDepth)

NextSegIndex ==
  \/ OnTable(Loc, "Funcref", PlainLimits)
  \/ OnMemory(Loc, PlainLimits)
  \/ \E c \in 0..2 : OnDataCount(c)
  \/ OnDataSegment(Loc, Var(0, Loc), "Active")
  \/ OnElemSegment(Loc, Var(0, Loc), "Passive", "Funcref")
  \/ \E s \in 0..1 : OnMemoryInit(Loc, Var(s, Loc))
  \/ \E s \in 0..1 : OnDataDrop(Loc, Var(s, Loc))
  \/ \E s \in 0..1 : OnTableInit(Loc, Var(s, Loc), Var(0, Loc))
  \/ \E s \in 0..1 : OnElemDrop(Loc, Var(s, Loc))

SpecSegIndex == InitSegIndex /\ [][NextSegIndex]_vars

----------------------------------------------------------------------------
(* Global initializers that carry their own type *)

GlobalInitDepth == 4

InitGlobalInit == InitWith({NoFeatures}, GlobalInitDepth)

NextGlobalInit ==
  \/ OnType(Loc, <<>>, <<>>)
  \/ OnFunction(Loc, Var(0, Loc))
  \/ \E t \in GlobalValueTypes : OnGlobal(Loc, t, FALSE)
  \/ \E t \in {"I32", "F32"} : OnGlobalInitExpr_Const(Loc, t)
  \/ OnGlobalInitExpr_RefNull(Loc)
  \/ \E i \in 0..1 : OnGlobalInitExpr_RefFunc(Loc, Var(i, Loc))

SpecGlobalInit == InitGlobalInit /\ [][NextGlobalInit]_vars

----------------------------------------------------------------------------
(* Properties.  Each is stated on the state right after an event: `last`   *)
(* holds what the event was given and what it returned.                    *)

AfterEvent == last.op # "none"

\* The declaration events that carry an index into one of the tables.
IndexedDeclOps ==
  {"OnFunction", "OnEvent", "OnExport", "OnStart", "OnElemSegment",
   "OnDataSegment", "OnGlobalInitExpr_GlobalGet",
   "OnElemSegmentInitExpr_GlobalGet", "OnDataSegmentInitExpr_GlobalGet",
   "OnGlobalInitExpr_RefFunc", "OnElemSegmentElemExpr_RefFunc"}

\* The last event carried an index at or past the end of its table (a
\* segment's table or memory index counts only when the segment is active).
IssuedOutOfRange ==
  /\ last.op \in IndexedDeclOps
  /\ last.op \in {"OnElemSegment", "OnDataSegment"} => last.args.kind = "Active"
  /\ ~last.args.in_range

\* C1: a declaration event whose index is >= the current length of the table
\* it refers to returns Error, records an index-out-of-range diagnostic, and
\* reads no table entry past the end.
C1_OutOfRangeIndexRejected ==
  IssuedOutOfRange =>
    /\ last.result = Error
    /\ Msgs(last.diags) \cap OutOfRangeMsgs # {}
    /\ ~last.oob

\* The same, for every indexed declaration but the start declaration.
OutOfRangeIndexRejectedExceptOnStart ==
  (IssuedOutOfRange /\ last.op # "OnStart") =>
    /\ last.result = Error
    /\ Msgs(last.diags) \cap OutOfRangeMsgs # {}
    /\ ~last.oob

DuplicateExportMsg(name) == "duplicate export \"" \o name \o "\""

DuplicateExportMsgs == {DuplicateExportMsg(n) : n \in ExportNames}

\* The names of the OnExport events issued before the last one.
EarlierExportNames ==
  {export_log[i].name : i \in 1..(Len(export_log) - 1)}

\* C2: the size of export_names equals the number of on_export events iff no
\* duplicate-export diagnostic was emitted; an on_export emits the diagnostic
\* exactly when an earlier on_export used its name, whatever that one
\* returned.
C2_ExportUniqueness ==
  /\ (Cardinality(export_names_) = issued["OnExport"])
       <=> (CountMsgs(errors_, DuplicateExportMsgs) = 0)
  /\ last.op = "OnExport" =>
       ((DuplicateExportMsg(last.args.name) \in Msgs(last.diags))
          <=> (last.args.name \in EarlierExportNames))

\* A duplicate is reported against a name whose only earlier export returned
\* Error, its item index being out of range.
C2_DuplicateOfFailedExport ==
  /\ last.op = "OnExport"
  /\ DuplicateExportMsg(last.args.name) \in Msgs(last.diags)
  /\ Len(export_log) = 2
  /\ export_log[1].name = last.args.name
  /\ ~export_log[1].in_range
  /\ Len(errors_) >= 2

\* The function indices global initializers named with ref.func: all of
\* them, and those that were in range when the event was issued.
RefFuncNamed == {e.index : e \in ref_func_log}
RefFuncNamedInRange == {e.index : e \in {x \in ref_func_log : x.in_range}}

\* C3 as claimed: end_module returns Ok iff every function index that
\* appeared in an on_global_init_expr_ref_func event is in declared_funcs.
C3_EndModuleOkIffAllNamedDeclared ==
  last.op = "EndModule" =>
    (last.result = Ok <=> RefFuncNamed \subseteq declared_funcs_)

\* C3 amended: end_module returns Ok iff every function index that appeared,
\* in range, in an on_global_init_expr_ref_func event is in declared_funcs
\* when end_module is called, whenever it was declared.
C3_EndModuleOkIffInRangeNamedDeclared ==
  last.op = "EndModule" =>
    (last.result = Ok <=> RefFuncNamedInRange \subseteq declared_funcs_)

\* end_module accepts a function that an elem entry declared only after the
\* global initializer had named it.
C3_DeferredCheckSatisfied ==
  /\ last.op = "EndModule"
  /\ last.result = Ok
  /\ late_declared # {}
  /\ late_declared \subseteq RefFuncNamedInRange

\* The global a global.get initializer referred to, and the global being
\* initialized (the last one declared); read only when the index is in range.
ReferencedGlobal == globals_[last.args.index + 1]
InitializedGlobal == globals_[Len(globals_)]

\* Every on_global_import event came before every on_global event.
ImportsFirst ==
  \A i \in 1..Len(imported), j \in 1..Len(imported) :
    (imported[j] /\ ~imported[i]) => j < i

\* C4 as claimed: on_global_init_expr_global_get(g) returns Ok iff g is in
\* range, globals[g] was appended by on_global_import, is immutable, and its
\* type is compatible with the type of the global being initialized.
C4_GlobalGetOkIffImportedImmutable ==
  last.op = "OnGlobalInitExpr_GlobalGet" =>
    (last.result = Ok <=>
       /\ last.args.in_range
       /\ imported[last.args.index + 1]
       /\ ~ReferencedGlobal.mutable_
       /\ TypeCheckerCheckType(ReferencedGlobal.type, InitializedGlobal.type))

\* C4 amended: it returns Ok iff g is in range, g is less than the number of
\* on_global_import events issued so far, globals[g] is immutable and its
\* type is compatible; g being below the import count means globals[g] is an
\* imported global when every on_global_import preceded every on_global.
C4_GlobalGetOkIffBelowImportCount ==
  last.op = "OnGlobalInitExpr_GlobalGet" =>
    /\ last.result = Ok <=>
         /\ last.args.in_range
         /\ last.args.index < issued["OnGlobalImport"]
         /\ ~ReferencedGlobal.mutable_
         /\ TypeCheckerCheckType(ReferencedGlobal.type, InitializedGlobal.type)
    /\ (ImportsFirst /\ last.args.in_range) =>
         (last.args.index < issued["OnGlobalImport"]
            <=> imported[last.args.index + 1])

\* A defined global is initialized from an imported, immutable global of a
\* type that is compatible without being equal.
C4_GlobalGetAccepted ==
  /\ last.op = "OnGlobalInitExpr_GlobalGet"
  /\ last.result = Ok
  /\ ImportsFirst
  /\ imported[last.args.index + 1]
  /\ ~imported[Len(imported)]
  /\ ReferencedGlobal.type # InitializedGlobal.type


\* C5: for every on_table or on_memory event that returns Ok,
\* initial <= absolute_max, and with a max initial <= max <= absolute_max
\* (2^32 - 1 elements for tables, 65536 pages for memories).
C5_AcceptedLimitsWellFormed ==
  \A op \in {"OnTable", "OnMemory"} :
    (last.op = op /\ last.result = Ok) =>
      LET absolute_max == IF op = "OnTable" THEN U64(65535, 65535) ELSE U64(1, 0)
          limits == last.args.limits
      IN /\ U64Le(limits.initial, absolute_max)
         /\ limits.has_max =>
              /\ U64Le(limits.initial, limits.max)
              /\ U64Le(limits.max, absolute_max)

\* A memory is accepted whose initial and max both sit on the absolute max.
C5_LimitsOnTheMaximumAccepted ==
  /\ last.op = "OnMemory"
  /\ last.result = Ok
  /\ last.args.limits.has_max
  /\ last.args.limits.initial = U64(1, 0)
  /\ last.args.limits.max = U64(1, 0)

\* C6: a shared on_memory returns Ok only with threads enabled and a max;
\* with threads and no max it records 'shared memories must have max sizes',
\* without threads 'memories may not be shared'; a shared on_table is always
\* rejected.
C6_SharedRules ==
  /\ (last.op = "OnMemory" /\ last.args.limits.is_shared) =>
       /\ last.result = Ok =>
            (options_.threads_enabled /\ last.args.limits.has_max)
       /\ (options_.threads_enabled /\ ~last.args.limits.has_max) =>
            "shared memories must have max sizes" \in Msgs(last.diags)
       /\ ~options_.threads_enabled =>
            "memories may not be shared" \in Msgs(last.diags)
  /\ (last.op = "OnTable" /\ last.args.limits.is_shared) =>
       /\ last.result = Error
       /\ "tables may not be shared" \in Msgs(last.diags)

\* The first memory, shared and without a max, with threads enabled: exactly
\* one diagnostic.
C6_SharedMemoryWithoutMax ==
  /\ last.op = "OnMemory"
  /\ options_.threads_enabled
  /\ last.args.limits = Limits(U64(0, 1), FALSE, U64(0, 0), TRUE)
  /\ Len(memories_) = 1
  /\ last.result = Error
  /\ last.diags = <<[loc |-> Loc, msg |-> "shared memories must have max sizes"]>>

\* C7 as claimed: after every event that returns Ok, memories holds at most
\* one entry.
C7_AtMostOneMemoryAfterOk ==
  (AfterEvent /\ last.result = Ok) => Len(memories_) <= 1

\* C7 amended: after every on_memory event that returns Ok, memories holds
\* exactly one entry; memories holds one entry per on_memory event, and more
\* than one only if an on_memory event recorded 'only one memory block
\* allowed'.
C7_OneMemoryUnlessRejected ==
  /\ (last.op = "OnMemory" /\ last.result = Ok) => Len(memories_) = 1
  /\ Len(memories_) = issued["OnMemory"]
  /\ Len(memories_) > 1 =>
       "only one memory block allowed" \in Msgs(errors_)

\* A second memory was rejected and appended, and a later event returned Ok.
C7_SecondMemoryKept ==
  /\ AfterEvent /\ last.op # "OnMemory" /\ last.result = Ok
  /\ Len(memories_) = 2
  /\ CountMsgs(errors_, {"only one memory block allowed"}) = 1

TableElements == {tables_[i].element : i \in 1..Len(tables_)}

\* C8 as claimed: with reference_types disabled, after every event that
\* returns Ok, tables holds at most one entry and every entry's element type
\* is Funcref.
C8_AtMostOneFuncrefTableAfterOk ==
  (~options_.reference_types_enabled /\ AfterEvent /\ last.result = Ok) =>
    /\ Len(tables_) <= 1
    /\ TableElements \subseteq {"Funcref"}

\* C8 amended: with reference_types disabled, after every on_table event that
\* returns Ok, tables holds exactly one entry, of element type Funcref; tables
\* holds one entry per on_table event, more than one only if an on_table
\* event recorded 'only one table allowed', and an entry of another element
\* type only if one recorded 'tables must have funcref type'.
C8_OneFuncrefTableUnlessRejected ==
  ~options_.reference_types_enabled =>
    /\ (last.op = "OnTable" /\ last.result = Ok) =>
         (Len(tables_) = 1 /\ tables_[1].element = "Funcref")
    /\ Len(tables_) = issued["OnTable"]
    /\ Len(tables_) > 1 => "only one table allowed" \in Msgs(errors_)
    /\ ~(TableElements \subseteq {"Funcref"}) =>
         "tables must have funcref type" \in Msgs(errors_)

\* A table of another reference type was rejected and appended, and a later
\* event returned Ok.
C8_RejectedTableKept ==
  /\ ~options_.reference_types_enabled
  /\ AfterEvent /\ last.op # "OnTable" /\ last.result = Ok
  /\ tables_ # <<>>
  /\ tables_[1].element = "Externref"
  /\ errors_ = <<[loc |-> Loc, msg |-> "tables must have funcref type"]>>

\* C9: on_start(f) returns Ok iff it is the first on_start event and funcs[f]
\* (an entry of funcs) has zero parameters and zero results; every later
\* on_start returns Error with 'only one start function allowed'.
C9_StartOkIffFirstAndNullary ==
  last.op = "OnStart" =>
    /\ last.result = Ok <=>
         /\ last.args.first
         /\ last.args.index < Len(funcs_)
         /\ funcs_[last.args.index + 1].params = <<>>
         /\ funcs_[last.args.index + 1].results = <<>>
    /\ ~last.args.first =>
         /\ last.result = Error
         /\ "only one start function allowed" \in Msgs(last.diags)

\* The same for the start declarations whose index is in range.
StartOkIffFirstAndNullaryInRange ==
  (last.op = "OnStart" /\ last.args.in_range) =>
    /\ last.result = Ok <=>
         /\ last.args.first
         /\ funcs_[last.args.index + 1].params = <<>>
         /\ funcs_[last.args.index + 1].results = <<>>
    /\ ~last.args.first =>
         /\ last.result = Error
         /\ "only one start function allowed" \in Msgs(last.diags)

PowersOfTwo == {2 ^ k : k \in 0..30}

LoadStoreOps == {"OnLoad", "OnLoadSplat", "OnStore"}

AtomicOps ==
  {"OnAtomicLoad", "OnAtomicStore", "OnAtomicRmw", "OnAtomicRmwCmpxchg",
   "OnAtomicWait", "OnAtomicNotify"}

\* C10: a load, load-splat or store that passes the module-level checks has
\* an alignment that is a power of two and <= the natural alignment; an
\* atomic operation that passes them has the natural alignment; alignment 0
\* is always rejected.
C10_AcceptedAlignment ==
  /\ (last.op \in LoadStoreOps /\ last.module = Ok) =>
       /\ last.args.alignment \in PowersOfTwo
       /\ last.args.alignment <= last.args.opcode.memory_size
  /\ (last.op \in AtomicOps /\ last.module = Ok) =>
       last.args.alignment = last.args.opcode.memory_size
  /\ (last.op \in LoadStoreOps \cup AtomicOps /\ last.args.alignment = 0) =>
       (last.module = Error /\ last.result = Error)

\* A load below its natural alignment passes the module-level checks.
C10_UnderAlignedLoadAccepted ==
  /\ last.op = "OnLoad"
  /\ last.module = Ok
  /\ last.result = Ok
  /\ last.args.alignment = 2
  /\ last.args.opcode.memory_size = 4

\* The diagnostics a TypeChecker transition records.
TypeCheckerMsgs == {"type mismatch"}

\* How many diagnostics of the last event came from its module-level checks.
ModuleDiagCount == Len(last.diags) - CountMsgs(last.diags, TypeCheckerMsgs)

\* The entries of init_expr_funcs that are not in declared_funcs.
UndeclaredInitExprFuncs ==
  {i \in 1..Len(init_expr_funcs_) :
     init_expr_funcs_[i].index \notin declared_funcs_}

\* C11: every check of an event is attempted, so the event records one
\* module-level diagnostic per violated check: table.init with an invalid
\* table index and an invalid elem segment index records both, and end_module
\* records one diagnostic for each undeclared function in init_expr_funcs.
C11_OneDiagnosticPerViolatedCheck ==
  /\ last.op = "OnTableInit" =>
       ModuleDiagCount = (IF last.args.table_in_range THEN 0 ELSE 1)
                           + (IF last.args.segment_in_range THEN 0 ELSE 1)
  /\ last.op = "EndModule" =>
       ModuleDiagCount = Cardinality(UndeclaredInitExprFuncs)

\* What the handlers do: table.init stops at an invalid table index, and
\* end_module at the first undeclared function.
AtMostOneDiagnosticOnEarlyReturn ==
  /\ last.op = "OnTableInit" =>
       ModuleDiagCount = (IF last.args.table_in_range
                            THEN (IF last.args.segment_in_range THEN 0 ELSE 1)
                            ELSE 1)
  /\ last.op = "EndModule" =>
       ModuleDiagCount = (IF UndeclaredInitExprFuncs = {} THEN 0 ELSE 1)

\* The events of a function body's instructions; every other event is a
\* module-level event.
InstructionOps ==
  {"OnLoad", "OnLoadSplat", "OnStore", "OnAtomicLoad", "OnAtomicNotify",
   "OnAtomicRmwCmpxchg", "OnAtomicRmw", "OnAtomicStore", "OnAtomicWait",
   "BeginFunctionBody", "EndFunctionBody", "OnBrOnExn", "OnCall",
   "OnCallIndirect", "OnReturnCall", "OnReturnCallIndirect", "OnTableFill",
   "OnTableGet", "OnTableGrow", "OnTableInit", "OnTableSet", "OnThrow",
   "OnLocalGet", "OnLocalSet", "OnLocalTee", "OnRefFunc", "OnGlobalGet",
   "OnGlobalSet", "OnBlock", "OnLoop", "OnIf", "OnTry", "OnElse", "OnEnd",
   "OnNop", "OnMemoryInit", "OnDataDrop", "OnElemDrop"}

ModuleLevelOps == Ops \ InstructionOps

\* The error list after a step is the error list before it, followed by the
\* diagnostics of the step's event.
ErrorsAppended == errors_' = errors_ \o last'.diags

\* C12: a module-level event returns Error iff it appended at least one
\* diagnostic; the error list is append-only; an event that returns Error
\* does not stop validation (while the parser has events, one can be
\* processed); the error list is empty iff every event so far returned Ok.
C12_ErrorIffDiagnosticRecorded ==
  /\ [](/\ last.op \in ModuleLevelOps =>
             (last.result = Error <=> last.diags # <<>>)
        /\ (last.result = Error /\ budget > 0) => ENABLED NextErrors
        /\ errors_ = <<>> <=> \A i \in 1..Len(returned) : returned[i] # Error)
  /\ [][ErrorsAppended]_vars

\* A declaration fails, the next one is accepted, a third one fails: both
\* failures are on the error list.
C12_ValidationContinuesAfterError ==
  /\ returned = <<Error, Ok, Error>>
  /\ last.op = "OnGlobalImport"
  /\ Len(last.diags) = 1
  /\ Len(errors_) = 2
  /\ errors_[2] = last.diags[1]
  /\ errors_[1].msg = "function type variable out of range"

\* C13: after n on_function events funcs holds exactly n entries, and the
\* entry the i-th on_function event resolved is funcs[i], also when an
\* on_function event returned Error.
C13_OneFuncPerOnFunction ==
  /\ Len(funcs_) = issued["OnFunction"]
  /\ (last.op = "OnFunction" /\ last.args.in_range) =>
       funcs_[issued["OnFunction"]] = types_[last.args.index + 1]

\* What the handler does: an on_function event whose type index is out of
\* range appends nothing, so funcs holds one entry per on_function event
\* whose type index was in range.
OneFuncPerResolvedOnFunction ==
  /\ Len(funcs_) = issued["OnFunction"]
                     - CountMsgs(errors_, {"function type variable out of range"})
  /\ (last.op = "OnFunction" /\ last.args.in_range) =>
       funcs_[Len(funcs_)] = types_[last.args.index + 1]

\* The end of the entry before entry i of locals (0 before the first): the
\* first local index of entry i.
PrevEnd(i) == IF i = 1 THEN U64(0, 0) ELSE locals_[i - 1].end

LocalEntries == 1..Len(locals_)

\* A begin_function_body event was issued: the locals are those of a body.
InBody == issued["BeginFunctionBody"] > 0

\* C14 as claimed: the end values of the LocalDecl entries are strictly
\* increasing, so that the entries partition [0, total_locals), for every
\* count argument including 0.
C14_EndsStrictlyIncreasing ==
  InBody => \A i \in LocalEntries : U64Lt(PrevEnd(i), locals_[i].end)

\* C14 amended: the end values never decrease and the total does not wrap;
\* an accepted on_local_decl appends an entry whose end is the previous end
\* plus count, above the previous end exactly when count is not 0; the first
\* and the last index of every non-empty entry resolve to that entry, so the
\* non-empty entries partition [0, total_locals).
C14_EndsNonDecreasing ==
  /\ InBody => \A i \in LocalEntries : U64Le(PrevEnd(i), locals_[i].end)
  /\ (InBody /\ last.op = "OnLocalDecl" /\ last.result = Ok) =>
       /\ locals_ # <<>>
       /\ locals_[Len(locals_)].type = last.args.type
       /\ U64Lt(PrevEnd(Len(locals_)), locals_[Len(locals_)].end)
            <=> last.args.count # U64(0, 0)
       /\ U32Sub(locals_[Len(locals_)].end, PrevEnd(Len(locals_)))
            = last.args.count
  /\ \A i \in LocalEntries :
       (InBody /\ U64Lt(PrevEnd(i), locals_[i].end)) =>
         /\ LocalUpperBound(PrevEnd(i)) = i
         /\ LocalUpperBound(U32Sub(locals_[i].end, U64(0, 1))) = i

\* A declaration of 0 locals sits between two parameters' entries and a
\* declaration of one local.
C14_EmptyEntryBetweenLocals ==
  /\ InBody
  /\ last.op = "OnLocalDecl" /\ last.result = Ok
  /\ Len(locals_) = 4
  /\ locals_[1].type = "I32" /\ locals_[2].type = "F32"
  /\ locals_[3].end = locals_[2].end
  /\ locals_[4].end = U64(0, 3)
  /\ LocalUpperBound(U64(0, 2)) = 4

\* 2^28 = 4096 * 2^16
TwoTo28 == U64(4096, 0)

\* The total local count before the last event, an on_local_decl: the count
\* now when the event was rejected, the end before the new entry otherwise.
LocalCountBefore ==
  IF last.result = Ok THEN PrevEnd(Len(locals_)) ELSE GetLocalCount

\* C15: the total local count stays below 2^28; an on_local_decl that would
\* bring it to 2^28 or more returns Error with 'local count must be <
\* 0x10000000' and leaves the locals unchanged.
C15_LocalCountBelowTwoTo28 ==
  InBody =>
    /\ U64Lt(GetLocalCount, TwoTo28)
    /\ (/\ last.op = "OnLocalDecl"
        /\ \/ U64Le(TwoTo28, last.args.count)
           \/ U64Le(TwoTo28, U32Add(LocalCountBefore, last.args.count))) =>
         /\ last.result = Error
         /\ Msgs(last.diags) = {"local count must be < 0x10000000"}

\* What the handler enforces: the total stays at or below the largest Index,
\* 2^32 - 1, and a declaration is rejected exactly when the total would pass
\* it; the 32-bit total never wraps.
LocalCountAtMostIndexMax ==
  InBody =>
    /\ U64Le(GetLocalCount, max_locals)
    /\ last.op = "OnLocalDecl" =>
         /\ last.result = Error <=>
              U64Gt(last.args.count, U32Sub(max_locals, LocalCountBefore))
         /\ last.result = Ok =>
              U64Le(LocalCountBefore, locals_[Len(locals_)].end)

OffsetConstOps ==
  {"OnElemSegmentInitExpr_Const", "OnDataSegmentInitExpr_Const"}

OffsetGlobalGetOps ==
  {"OnElemSegmentInitExpr_GlobalGet", "OnDataSegmentInitExpr_GlobalGet"}

OffsetOtherOps ==
  {"OnElemSegmentInitExpr_Other", "OnDataSegmentInitExpr_Other"}

\* C16: an elem-segment or data-segment offset initializer returns Ok iff it
\* is a const of type i32, or a global.get of an in-range global that is
\* immutable and of type i32; every other form returns Error.
C16_SegmentOffsetOkIffI32 ==
  /\ last.op \in OffsetConstOps =>
       (last.result = Ok <=> last.args.type = "I32")
  /\ last.op \in OffsetGlobalGetOps =>
       (last.result = Ok <=>
          /\ last.args.in_range
          /\ ~globals_[last.args.index + 1].mutable_
          /\ globals_[last.args.index + 1].type = "I32")
  /\ last.op \in OffsetOtherOps => last.result = Error
  /\ last.op \in OffsetConstOps \cup OffsetGlobalGetOps \cup OffsetOtherOps =>
       last.result \in {Ok, Error}

\* A data segment's offset is read from the second global, immutable and
\* i32, while the first one is mutable.
C16_OffsetFromImmutableGlobal ==
  /\ last.op = "OnDataSegmentInitExpr_GlobalGet"
  /\ last.result = Ok
  /\ last.args.index = 1
  /\ globals_[1].mutable_
  /\ errors_ = <<>>

\* C17: on_global_import returns Error iff the global is mutable and
\* mutable_globals is disabled; in both outcomes it appends the global and
\* increments num_imported_globals, which equals the number of
\* on_global_import events and is <= the length of globals; on_global never
\* changes num_imported_globals.
C17_ImportedGlobalsCounted ==
  /\ [](/\ last.op = "OnGlobalImport" =>
             /\ last.result = Error <=>
                  (last.args.mutable_ /\ ~options_.mutable_globals_enabled)
             /\ globals_ # <<>>
             /\ globals_[Len(globals_)]
                  = GlobalType(last.args.type, last.args.mutable_)
        /\ num_imported_globals_ = issued["OnGlobalImport"]
        /\ num_imported_globals_ <= Len(globals_)
        /\ Len(globals_) = issued["OnGlobalImport"] + issued["OnGlobal"])
  /\ [][last'.op = "OnGlobal" =>
          num_imported_globals_' = num_imported_globals_]_vars

\* A mutable import is rejected, and counted, after a defined global and an
\* accepted import.
C17_RejectedImportCounted ==
  /\ last.op = "OnGlobalImport"
  /\ last.result = Error
  /\ num_imported_globals_ = 2
  /\ Len(globals_) = 3
  /\ issued["OnGlobal"] = 1
  /\ Len(errors_) = 1

\* C18: two runs that start from the initial state with the same feature
\* flags and receive the same events end with identical error lists and
\* return the same result for every event.
C18_RunsAgree ==
  /\ twin.errors = errors_
  /\ twin.returned = returned

\* The instruction events that carry a function, type, table or event index.
IndexedInstrOps ==
  {"OnCall", "OnCallIndirect", "OnReturnCall", "OnReturnCallIndirect",
   "OnThrow", "OnBrOnExn", "OnTableGet", "OnTableSet", "OnTableGrow",
   "OnTableFill"}

\* C19: an instruction event that carries a function, type, table or event
\* index reads no entry at an index >= the table's length, and an
\* out-of-range index makes it return Error with a module-level diagnostic.
C19_IndexedInstructionChecked ==
  last.op \in IndexedInstrOps =>
    /\ ~last.oob
    /\ ~last.args.in_range =>
         /\ last.result = Error
         /\ last.module = Error
         /\ ModuleDiagCount > 0

\* What the handlers do. call, call_indirect and br_on_exn report an index
\* out of range; return_call_indirect reports the table index alone; all of
\* them read the entry whether or not the index is in range, return_call,
\* throw and the table instructions without any check.
IndexedInstructionChecks ==
  /\ (last.op \in {"OnCall", "OnCallIndirect", "OnBrOnExn"}
        /\ ~last.args.in_range) =>
       (last.result = Error /\ last.module = Error)
  /\ (last.op = "OnReturnCallIndirect" /\ last.args.table_index >= Len(tables_))
       => last.module = Error
  /\ last.op \in {"OnReturnCall", "OnThrow", "OnTableGet", "OnTableSet",
                  "OnTableGrow", "OnTableFill"} =>
       (last.module = Ok /\ last.oob = ~last.args.in_range)
  /\ (last.op \in IndexedInstrOps /\ last.args.in_range) => ~last.oob


\* The local indices probed after BeginFunctionBody: every index below the
\* count the previous body had reached (counted in the low half), and a few
\* past it.
ProbedLocals ==
  {U64(0, i) : i \in 0..(LocalCount(last.args.cleared)[2] % 8) + 2}

\* C20: after begin_function_body(f) the local count is the number of
\* parameters of funcs[f], local i has the type of parameter i, no index at or
\* above that count resolves (so no local of an earlier body does), and the
\* TypeChecker is given the results of funcs[f]; when f is out of range the
\* locals are empty and the result list given is empty.
C20_LocalsAreTheParams ==
  last.op = "BeginFunctionBody" =>
    IF last.args.index < Len(funcs_)
      THEN LET func == funcs_[last.args.index + 1]
           IN /\ GetLocalCount = U64(0, Len(func.params))
              /\ \A v \in ProbedLocals :
                   LET check == CheckLocalIndex(Var(v, Loc))
                   IN IF v[2] < Len(func.params)
                        THEN /\ check.result = Ok
                             /\ check.type = func.params[v[2] + 1]
                        ELSE check.result = Error
              /\ last.args.results = func.results
      ELSE /\ locals_ = <<>>
           /\ \A v \in ProbedLocals : CheckLocalIndex(Var(v, Loc)).result = Error
           /\ last.args.results = <<>>

\* A second body of a function with two parameters begins directly after a
\* body that had declared a local of its own after its parameters.
C20_BodyAfterBodyWithLocals ==
  /\ last.op = "BeginFunctionBody"
  /\ last.args.in_range
  /\ Len(last.args.cleared) = 3
  /\ last.args.cleared[3].type = "F64"
  /\ last.args.cleared[3].end = U64(0, 3)
  /\ Len(locals_) = 2
  /\ last.args.results = <<"I32">>

\* `type` repeated n times.
RECURSIVE Repeat(_, _)
Repeat(type, n) == IF n = 0 THEN <<>> ELSE <<type>> \o Repeat(type, n - 1)

\* Each declared type repeated count times (counts below 2^16).
RECURSIVE DenseDecls(_)
DenseDecls(decls) ==
  IF decls = <<>> THEN <<>>
  ELSE Repeat(Head(decls).type, Head(decls).count[2]) \o DenseDecls(Tail(decls))

\* The dense list of local types of the body being read: the parameters it
\* began with, then the accepted declarations.
DenseLocals == local_log.params \o DenseDecls(local_log.decls)

LocalOps == {"OnLocalGet", "OnLocalSet", "OnLocalTee"}

\* C21: after begin_function_body and any accepted on_local_decl events,
\* local.get, local.set and local.tee with index i hand the TypeChecker the
\* i-th element of the dense list (parameters, then each declared type
\* repeated count times) when i is below its length, and otherwise return
\* Error with a local-out-of-range diagnostic and hand it Any.
C21_LocalTypeIsDenseListEntry ==
  (last.op \in LocalOps /\ InBody) =>
    LET i == last.args.index[2]
    IN IF i < Len(DenseLocals)
         THEN /\ last.module = Ok
              /\ last.args.type = DenseLocals[i + 1]
         ELSE /\ last.result = Error
              /\ last.module = Error
              /\ "local variable out of range" \in Msgs(last.diags)
              /\ last.args.type = "Any"

\* local.get 1 in a body with one parameter, then a declaration of 0 locals,
\* then a declaration of one F64 local: the lookup passes over the empty entry.
C21_LookupPassesEmptyEntry ==
  /\ last.op = "OnLocalGet"
  /\ InBody
  /\ local_log.params = <<"I32">>
  /\ local_log.decls = <<[count |-> U64(0, 0), type |-> "I64"],
                         [count |-> U64(0, 1), type |-> "F64"]>>
  /\ last.args.index = U64(0, 1)
  /\ last.args.type = "F64"

NotDeclaredMsg == "function is not declared in any elem sections"

\* The functions an earlier elem-segment ref.func entry named while in range.
DeclaredByElemEntry == {e.index : e \in {x \in elem_func_log : x.in_range}}

\* C22: a ref.func f instruction passes its module-level check iff an
\* elem-segment ref.func entry with an in-range f was issued earlier, and no
\* later event takes back the diagnostic of one that failed.
C22_RefFuncInstrOkIffDeclaredEarlier ==
  /\ [](last.op = "OnRefFunc" =>
          (last.module = Ok <=> last.args.index \in DeclaredByElemEntry))
  /\ [][/\ Len(errors_') >= Len(errors_)
        /\ SubSeq(errors_', 1, Len(errors_)) = errors_]_vars

\* ref.func 0 is accepted after an elem-segment entry declared function 0,
\* while the diagnostic of a ref.func issued before the entry is still in the
\* error list.
C22_AcceptedOnlyAfterEntry ==
  /\ last.op = "OnRefFunc"
  /\ last.module = Ok
  /\ last.args.index = 0
  /\ issued["OnRefFunc"] = 2
  /\ issued["EndModule"] = 0
  /\ NotDeclaredMsg \in Msgs(errors_)

ImmutableSetMsg == "can't global.set on immutable global"

\* C23: global.set on an in-range immutable global returns Error with the
\* immutability diagnostic; global.set or global.get on an out-of-range index
\* records exactly one module-level diagnostic (global variable out of
\* range), no immutability diagnostic, and hands Any to the TypeChecker.
C23_GlobalSetAndPlaceholder ==
  /\ (last.op = "OnGlobalSet" /\ last.args.in_range) =>
       LET global == globals_[last.args.index + 1]
       IN /\ last.args.type = global.type
          /\ IF global.mutable_
               THEN last.module = Ok
               ELSE /\ last.result = Error
                    /\ ImmutableSetMsg \in Msgs(last.diags)
  /\ (last.op \in {"OnGlobalGet", "OnGlobalSet"} /\ ~last.args.in_range) =>
       /\ last.result = Error
       /\ ModuleDiagCount = 1
       /\ "global variable out of range" \in Msgs(last.diags)
       /\ ImmutableSetMsg \notin Msgs(last.diags)
       /\ last.args.type = "Any"

\* global.set 1 when the only global is immutable: the index is out of range.
C23_SetPastTheOnlyGlobal ==
  /\ last.op = "OnGlobalSet"
  /\ last.args.index = 1
  /\ Len(globals_) = 1
  /\ ~globals_[1].mutable_
  /\ ModuleDiagCount = 1

BlockOps == {"OnBlock", "OnLoop", "OnIf", "OnTry"}

\* C24: block, loop, if and try expand an inline signature to no params and
\* the one inline result (none for Void); an in-range type index to the
\* params and results of types[index], returning Error with multi_value off
\* iff the params are non-empty or the results number more than one; an
\* out-of-range type index to empty lists, returning Error.  The expanded
\* lists are what the TypeChecker is handed in each case.
C24_BlockSignatureExpansion ==
  last.op \in BlockOps =>
    LET sig == last.args.sig_type
    IN IF ~sig.is_index
         THEN /\ last.args.param_types = <<>>
              /\ last.args.result_types =
                   (IF sig.type = "Void" THEN <<>> ELSE <<sig.type>>)
              /\ last.module = Ok
         ELSE IF sig.index < Len(types_)
           THEN /\ last.args.param_types = types_[sig.index + 1].params
                /\ last.args.result_types = types_[sig.index + 1].results
                /\ last.module = Error <=>
                     /\ ~options_.multi_value_enabled
                     /\ \/ types_[sig.index + 1].params # <<>>
                        \/ Len(types_[sig.index + 1].results) > 1
                /\ last.module = Error => last.result = Error
           ELSE /\ last.args.param_types = <<>>
                /\ last.args.result_types = <<>>
                /\ last.module = Error
                /\ last.result = Error

\* With multi_value off, try names a type with two results: Error, and the two
\* results are handed to the TypeChecker all the same.
C24_MultipleResultsRejectedAndHandedOn ==
  /\ last.op = "OnTry"
  /\ ~options_.multi_value_enabled
  /\ last.args.sig_type = TypeIndexSig(1)
  /\ last.args.result_types = <<"I32", "I32">>
  /\ last.module = Error
  /\ "multiple try results not currently supported." \in Msgs(last.diags)

\* v is the beginning of w.
IsPrefix(v, w) == Len(v) <= Len(w) /\ SubSeq(w, 1, Len(v)) = v

\* Every entry the module's tables hold stays as it is.
TablesOnlyGrow ==
  /\ IsPrefix(types_, types_')
  /\ IsPrefix(funcs_, funcs_')
  /\ IsPrefix(tables_, tables_')
  /\ IsPrefix(memories_, memories_')
  /\ IsPrefix(globals_, globals_')
  /\ IsPrefix(events_, events_')
  /\ IsPrefix(init_expr_funcs_, init_expr_funcs_')
  /\ export_names_ \subseteq export_names_'
  /\ declared_funcs_ \subseteq declared_funcs_'
  /\ elem_segments_' >= elem_segments_

\* The events said to leave the module's tables alone.
TableReaderOps ==
  InstructionOps \cup {"OnLocalDecl", "EndModule"}

TableReadersChangeNothing ==
  last'.op \in TableReaderOps =>
    UNCHANGED <<types_, funcs_, tables_, memories_, globals_, events_,
                init_expr_funcs_, export_names_, declared_funcs_,
                elem_segments_>>

\* on_table, on_memory, on_global_import and on_export add their entry
\* whatever they return.
EntryAddedWhateverTheResult ==
  /\ last'.op = "OnTable" =>
       tables_' = Append(tables_, TableType(last'.args.elem_type,
                                            last'.args.limits))
  /\ last'.op = "OnMemory" =>
       memories_' = Append(memories_, MemoryType(last'.args.limits))
  /\ last'.op = "OnGlobalImport" =>
       globals_' = Append(globals_, GlobalType(last'.args.type,
                                               last'.args.mutable_))
  /\ last'.op = "OnExport" =>
       export_names_' = export_names_ \cup {last'.args.name}

\* C25: no event removes or modifies an entry of types, funcs, tables,
\* memories, globals, events, export_names, declared_funcs or
\* init_expr_funcs, and the elem_segments count never decreases; instruction
\* events, begin_function_body, on_local_decl, end_function_body and
\* end_module leave them all unchanged; on_table, on_memory, on_global_import
\* and on_export append their entry also when they return Error.
C25_TablesAppendOnly ==
  [][/\ TablesOnlyGrow
     /\ TableReadersChangeNothing
     /\ EntryAddedWhateverTheResult]_vars

\* A shared table and a shared memory were both rejected and both kept, and
\* an instruction event came after them.
C25_RejectedEntriesKept ==
  /\ Len(returned) = 3
  /\ returned[1] = Error /\ returned[2] = Error
  /\ issued["OnTable"] = 1 /\ issued["OnMemory"] = 1
  /\ Len(tables_) = 1 /\ tables_[1].limits.is_shared
  /\ Len(memories_) = 1 /\ memories_[1].limits.is_shared
  /\ last.op \in InstructionOps

\* The events that make no assignment to the expression location.
KeepExprLocOps == ModuleLevelOps \cup {"OnElse", "EndFunctionBody"}

\* The locations of the TypeChecker diagnostics of a list.
TypeCheckerLocs(diags) ==
  {diags[i].loc : i \in {j \in 1..Len(diags) : diags[j].msg \in TypeCheckerMsgs}}

\* C26: a TypeChecker diagnostic raised during end_function_body or else is
\* recorded at the location of the most recent earlier event that set the
\* expression location (an instruction, or begin_function_body), not at the
\* event's own; one raised during any other instruction event is recorded at
\* that event's location.  The most recent setter's location is carried from
\* step to step: a setter leaves its own location, every other event leaves
\* the one it found.
C26_TypeCheckerDiagnosticLocation ==
  /\ [](last.op \in InstructionOps \ KeepExprLocOps =>
          /\ expr_loc_ = last.args.loc
          /\ TypeCheckerLocs(last.diags) \subseteq {last.args.loc})
  /\ [][last'.op \in KeepExprLocOps =>
          /\ expr_loc_' = expr_loc_
          /\ TypeCheckerLocs(last'.diags) \subseteq {expr_loc_}]_vars

\* if at L2, then else at L1: the TypeChecker diagnostic of the else is
\* recorded at L2.
C26_ElseDiagnosticAtEarlierLocation ==
  /\ last.op = "OnElse"
  /\ last.args.loc = "L1"
  /\ issued["OnIf"] = 1
  /\ Len(returned) = 3
  /\ expr_loc_ = "L2"
  /\ TypeCheckerLocs(last.diags) = {"L2"}

DataSegmentOps == {"OnMemoryInit", "OnDataDrop"}

\* The segment index an instruction was given.
SegmentIndexGiven ==
  IF last.op = "OnTableInit" THEN last.args.segment_index ELSE last.args.index

\* The event recorded no segment-index diagnostic.
SegmentIndexPassed ==
  /\ "data_segment variable out of range" \notin Msgs(last.diags)
  /\ "elem_segment variable out of range" \notin Msgs(last.diags)

\* The data segment count is what the most recent on_data_count passed, 0
\* when none was issued: on_data_count leaves its argument, every other
\* event (on_data_segment too) leaves the count it found.
DataCountIsLastDeclared ==
  /\ [](/\ issued["OnDataCount"] = 0 => data_segments_ = 0
        /\ last.op = "OnDataCount" => data_segments_ = last.args.count)
  /\ [][last'.op # "OnDataCount" => data_segments_' = data_segments_]_vars

\* C27: memory.init and data.drop with data segment index s pass the
\* segment-index check iff s is below the count of the most recent
\* on_data_count (the data segment count, see DataCountIsLastDeclared);
\* table.init and elem.drop with elem segment index s pass it iff s is below
\* the number of on_elem_segment events issued so far.
C27_SegmentIndexAgainstDeclaredCount ==
  /\ last.op \in DataSegmentOps =>
       (SegmentIndexPassed <=> SegmentIndexGiven < data_segments_)
  /\ last.op \in {"OnTableInit", "OnElemDrop"} =>
       (SegmentIndexPassed <=> SegmentIndexGiven < issued["OnElemSegment"])

\* The same, table.init being looked at only when its table index is in
\* range: past a table out of range it does not reach the segment index.
SegmentIndexAgainstCountWhenReached ==
  /\ last.op \in DataSegmentOps =>
       (SegmentIndexPassed <=> SegmentIndexGiven < data_segments_)
  /\ (last.op = "OnElemDrop"
        \/ (last.op = "OnTableInit" /\ last.args.table_in_range)) =>
       (SegmentIndexPassed <=> SegmentIndexGiven < issued["OnElemSegment"])
  /\ (last.op = "OnTableInit" /\ ~last.args.table_in_range) =>
       SegmentIndexPassed

\* The last event is an initializer that compares its own type with the
\* global being initialized (ref.func only once its index was accepted).
TypedInitializer ==
  \/ last.op \in {"OnGlobalInitExpr_Const", "OnGlobalInitExpr_RefNull"}
  \/ last.op = "OnGlobalInitExpr_RefFunc" /\ last.args.in_range

\* The type such an initializer yields.
InitializerType ==
  IF last.op = "OnGlobalInitExpr_Const" THEN last.args.actual
  ELSE IF last.op = "OnGlobalInitExpr_RefNull" THEN "Nullref" ELSE "Funcref"

\* With a global declared, the initializer returns Ok iff its type is
\* compatible with the type of the last entry of globals.
InitializerOkIffCompatibleWithLastGlobal ==
  (TypedInitializer /\ globals_ # <<>>) =>
    (last.result = Ok
       <=> TypeCheckerCheckType(InitializerType, globals_[Len(globals_)].type))

\* C28: on_global_init_expr_const(T), on_global_init_expr_ref_null and a
\* successful on_global_init_expr_ref_func return Ok iff T, Nullref or
\* Funcref is compatible with the type of the most recently appended global,
\* and an initializer issued before any global declaration reads no entry of
\* the empty globals table.
C28_InitializerReadsDeclaredGlobal ==
  /\ InitializerOkIffCompatibleWithLastGlobal
  /\ TypedInitializer => ~last.oob

RefFuncDeclOps ==
  {"OnElemSegmentElemExpr_RefFunc", "OnGlobalInitExpr_RefFunc"}

\* C29: in every reachable state every index in declared_funcs and every
\* index in init_expr_funcs is below the length of funcs; an elem-segment
\* ref.func or a global-initializer ref.func with an out-of-range index
\* returns Error and records nothing in either collection.
C29_RecordedFuncsInRange ==
  /\ [](/\ \A f \in declared_funcs_ : f < Len(funcs_)
        /\ \A k \in 1..Len(init_expr_funcs_) :
             init_expr_funcs_[k].index < Len(funcs_)
        /\ (last.op \in RefFuncDeclOps /\ ~last.args.in_range) =>
             last.result = Error)
  /\ [][(last'.op \in RefFuncDeclOps /\ ~last'.args.in_range) =>
          UNCHANGED <<declared_funcs_, init_expr_funcs_>>]_vars

\* Function 0 is declared by an elem entry and named by a global
\* initializer; then a global initializer names function 1, which is not
\* there, and nothing is recorded for it.
C29_OutOfRangeRefFuncNotRecorded ==
  /\ last.op = "OnGlobalInitExpr_RefFunc"
  /\ last.args.index = 1
  /\ last.result = Error
  /\ Len(funcs_) = 1
  /\ declared_funcs_ = {0}
  /\ Len(init_expr_funcs_) = 1

AlignmentMsgs ==
  {"alignment must be a power of 2",
   "alignment must be equal to natural alignment"}

====
